---------------------------- MODULE Spec2Model ----------------------------
(***************************************************************************)
(* Model of kdenlive_api.dbus_client: the reply parser of the dbus-send    *)
(* transport (_parse_dbus_send_output, _parse_scalar, _parse_dbus_value,    *)
(* _parse_array) and the remote call facade (_call, _call_subprocess,       *)
(* _discover_service).                                                      *)
(*                                                                          *)
(* Python strings are sequences of one-character strings.  Python values    *)
(* are records of one shape, [k, s, items]:                                 *)
(*   str    k = "str",   s = the characters                                 *)
(*   list   k = "list",  items = the elements                               *)
(*   tuple  k = "tuple", items = <<key, value>>                             *)
(*   dict   k = "dict",  items = the (key, value) tuples, insertion order   *)
(*   None   k = "none"                                                      *)
(*   a raised exception  k = "raise", s = <<the exception's type name>>     *)
(* Indices are the code's 0-based indices; line idx is lines[idx + 1].      *)
(***************************************************************************)
EXTENDS Integers, Sequences, FiniteSets, TLC

VARIABLES
    shape,      \* the value the bus tool printed (the input's parse tree)
    hdr,        \* whether the reply text starts with the "method return" line
    reply,      \* the reply text handed to _parse_dbus_send_output
    result,     \* what _parse_dbus_send_output returned (or raised)
    ppc,        \* "ready" before the parse, "done" after it
    installed,  \* the D-Bus bindings importable at construction
    backend,    \* self._backend
    proxy,      \* whether self._proxy is not None
    service,    \* self._service
    call,       \* per caller: where its _call stands and what it did so far
    coerce,     \* a boolean-returning facade operation and what it was given
    probe,      \* one run of _discover_service and its environment
    opening,    \* one run of open_project
    tracks,     \* a track-validated facade operation and the remote's tracks
    item,       \* a TimelineItem handle and the remote clip behind it
    importing,  \* one run of import_media and the remote's bin
    marked,     \* one MediaPoolItem's in-memory markers and the last call on it
    encoding,   \* the arguments of one call and their dbus-send tokens
    indexing,   \* a track index resolved by a script and by the timeline
    replacing,  \* one run of the replace_scene script
    building    \* one run of build_timeline's insert and marker loops

pvars == <<shape, hdr, reply, result, ppc>>

cvars == <<installed, backend, proxy, service, call>>

ovars == <<coerce, probe, opening, tracks, item, importing>>

svars == <<marked, encoding, indexing, replacing, building>>

vars == <<shape, hdr, reply, result, ppc, installed, backend, proxy, service, call,
          coerce, probe, opening, tracks, item, importing,
          marked, encoding, indexing, replacing, building>>

\* a component that takes no part in the specification at hand
Parked == [pc |-> "parked"]

\* the script-level components parked
ParkedScripts ==
    /\ marked = Parked /\ encoding = Parked /\ indexing = Parked
    /\ replacing = Parked /\ building = Parked

-----------------------------------------------------------------------------
(* Python values *)

Str(cs) == [k |-> "str", s |-> cs, items |-> <<>>]

List(xs) == [k |-> "list", s |-> <<>>, items |-> xs]

Tuple(a, b) == [k |-> "tuple", s |-> <<>>, items |-> <<a, b>>]

Dict(ps) == [k |-> "dict", s |-> <<>>, items |-> ps]

PyNone == [k |-> "none", s |-> <<>>, items |-> <<>>]

Raise(exc) == [k |-> "raise", s |-> <<exc>>, items |-> <<>>]

IsRaise(v) == v.k = "raise"

-----------------------------------------------------------------------------
(* Python string operations, on sequences of characters *)

Whitespace == {" ", "\t", "\n"}

StartsWith(s, p) == Len(s) >= Len(p) /\ SubSeq(s, 1, Len(p)) = p

EndsWith(s, p) == Len(s) >= Len(p) /\ SubSeq(s, Len(s) - Len(p) + 1, Len(s)) = p

\* s[n:]
From(s, n) == SubSeq(s, n + 1, Len(s))

\* s[n:-1]
FromToLast(s, n) == SubSeq(s, n + 1, Len(s) - 1)

LStrip(s) ==
    LET keep == {i \in 1..Len(s) : s[i] \notin Whitespace}
    IN  IF keep = {} THEN <<>>
        ELSE SubSeq(s, CHOOSE i \in keep : \A j \in keep : i <= j, Len(s))

RStrip(s) ==
    LET keep == {i \in 1..Len(s) : s[i] \notin Whitespace}
    IN  IF keep = {} THEN <<>>
        ELSE SubSeq(s, 1, CHOOSE i \in keep : \A j \in keep : i >= j)

Strip(s) == LStrip(RStrip(s))

RECURSIVE SplitLines(_)
SplitLines(t) ==
    LET nl == {i \in 1..Len(t) : t[i] = "\n"}
    IN  IF t = <<>> THEN <<>>
        ELSE IF nl = {} THEN <<t>>
        ELSE LET i == CHOOSE x \in nl : \A y \in nl : x <= y
             IN  <<SubSeq(t, 1, i - 1)>> \o SplitLines(SubSeq(t, i + 1, Len(t)))

RECURSIVE JoinLines(_)
JoinLines(ls) ==
    IF ls = <<>> THEN <<>>
    ELSE IF Len(ls) = 1 THEN ls[1]
    ELSE ls[1] \o <<"\n">> \o JoinLines(Tail(ls))

-----------------------------------------------------------------------------
(* The literal tokens of the reply grammar *)

Quote == <<"\"">>

EscQuote == <<"\\", "\"">>

TokString == <<"s", "t", "r", "i", "n", "g", " ", "\"">>

TokInt32 == <<"i", "n", "t", "3", "2", " ">>

TokInt64 == <<"i", "n", "t", "6", "4", " ">>

TokUint32 == <<"u", "i", "n", "t", "3", "2", " ">>

TokUint64 == <<"u", "i", "n", "t", "6", "4", " ">>

TokDouble == <<"d", "o", "u", "b", "l", "e", " ">>

TokBoolean == <<"b", "o", "o", "l", "e", "a", "n", " ">>

TokVariant == <<"v", "a", "r", "i", "a", "n", "t">>

TokArrayOpen == <<"a", "r", "r", "a", "y", " ", "[">>

TokArrayClose == <<"]">>

TokDictOpen == <<"d", "i", "c", "t", " ", "e", "n", "t", "r", "y", "(">>

TokDictClose == <<")">>

NumberTagToks == {TokInt32, TokInt64, TokUint32, TokUint64, TokDouble, TokBoolean}

TokMethodReturn == <<"m", "e", "t", "h", "o", "d", " ", "r", "e", "t", "u", "r", "n", " ">>

-----------------------------------------------------------------------------
(* The reply parser *)

\* a _parse_scalar that cuts a string one character early and leaves the
\* numbers' tags in place
parse_scalar_off_by_one(line) ==
    IF StartsWith(line, TokString)
    THEN <<Str(IF EndsWith(line, Quote) THEN FromToLast(line, 7) ELSE From(line, 7)), TRUE>>
    ELSE IF \E tag \in NumberTagToks : StartsWith(line, tag) THEN <<Str(line), TRUE>>
    ELSE <<PyNone, FALSE>>

\* _parse_scalar: <<value, ok>>; the value of every scalar is a str
parse_scalar(line) ==
    IF StartsWith(line, TokString)
    THEN <<Str(IF EndsWith(line, Quote) THEN FromToLast(line, 8) ELSE From(line, 7)), TRUE>>
    ELSE IF StartsWith(line, TokInt32) THEN <<Str(From(line, 6)), TRUE>>
    ELSE IF StartsWith(line, TokInt64) THEN <<Str(From(line, 6)), TRUE>>
    ELSE IF StartsWith(line, TokUint32) THEN <<Str(From(line, 7)), TRUE>>
    ELSE IF StartsWith(line, TokUint64) THEN <<Str(From(line, 7)), TRUE>>
    ELSE IF StartsWith(line, TokDouble) THEN <<Str(From(line, 7)), TRUE>>
    ELSE IF StartsWith(line, TokBoolean) THEN <<Str(From(line, 8)), TRUE>>
    ELSE <<PyNone, FALSE>>

\* the test that sends a line to the multi-line string branch
IsMultilineStart(line) == StartsWith(line, TokString) /\ ~EndsWith(line, Quote)

\* the test that ends a multi-line string, on the right-stripped raw line
IsClosingLine(stripped) == EndsWith(stripped, Quote) /\ ~EndsWith(stripped, EscQuote)

\* the inner loop of the multi-line branch; joined is '\n'.join(parts)
RECURSIVE multiline_tail(_, _, _)
multiline_tail(lines, idx, joined) ==
    IF idx >= Len(lines) THEN <<Str(joined), idx>>
    ELSE LET raw == lines[idx + 1]
             stripped == RStrip(raw)
         IN  IF IsClosingLine(stripped)
             THEN <<Str(joined \o <<"\n">> \o SubSeq(stripped, 1, Len(stripped) - 1)), idx + 1>>
             ELSE multiline_tail(lines, idx + 1, joined \o <<"\n">> \o raw)

\* hash(v) succeeds: a str, None, or a tuple of hashable values
RECURSIVE Hashable(_)
Hashable(v) ==
    \/ v.k \in {"str", "none"}
    \/ v.k = "tuple" /\ Hashable(v.items[1]) /\ Hashable(v.items[2])

\* dict(items): the last value of a key wins, keys keep their first position
RECURSIVE DictOf(_, _)
DictOf(items, acc) ==
    IF items = <<>> THEN acc
    ELSE LET key == Head(items).items[1]
             at == {i \in 1..Len(acc) : acc[i].items[1] = key}
         IN  DictOf(Tail(items),
                    IF at = {} THEN Append(acc, Head(items))
                    ELSE [i \in 1..Len(acc) |-> IF i \in at THEN Head(items) ELSE acc[i]])

\* the filter on a parsed child of an array
KeepItem(val) == val # PyNone /\ val # Str(<<>>)

\* the value _parse_array returns for the items it collected
ArrayResult(items, has_dict_entries) ==
    IF has_dict_entries /\ items # <<>> /\ \A i \in 1..Len(items) : items[i].k = "tuple"
    THEN IF \A i \in 1..Len(items) : Hashable(items[i].items[1])
         THEN Dict(DictOf(items, <<>>))
         ELSE Raise("TypeError")
    ELSE List(items)

RECURSIVE parse_dbus_value(_, _)
RECURSIVE parse_array_loop(_, _, _, _)

\* the rest of a variant line, after the token
VariantRest(line) == Strip(From(line, Len(TokVariant)))

\* the dict entry branch: key, value, then the optional closing line
DictEntry(lines, idx) ==
    LET key == parse_dbus_value(lines, idx)
    IN  IF IsRaise(key[1]) THEN key
        ELSE LET val == parse_dbus_value(lines, key[2])
                 i == val[2]
             IN  IF IsRaise(val[1]) THEN val
                 ELSE <<Tuple(key[1], val[1]),
                        IF i < Len(lines) /\ Strip(lines[i + 1]) = TokDictClose
                        THEN i + 1 ELSE i>>

\* an array parser that answers without moving the cursor
parse_array_in_place(lines, idx) == <<List(<<>>), idx>>

\* _parse_array: <<value, next index>>
parse_array(lines, idx) == parse_array_loop(lines, idx, <<>>, FALSE)

\* _parse_dbus_value: <<value, next index>>
parse_dbus_value(lines, idx) ==
    IF idx >= Len(lines) THEN <<Str(<<>>), idx>>
    ELSE LET line == Strip(lines[idx + 1])
         IN  IF line = <<>> \/ line = TokDictClose THEN parse_dbus_value(lines, idx + 1)
             ELSE IF IsMultilineStart(line) THEN multiline_tail(lines, idx + 1, From(line, 8))
             ELSE IF parse_scalar(line)[2] THEN <<parse_scalar(line)[1], idx + 1>>
             ELSE IF StartsWith(line, TokVariant)
                  THEN LET rest == VariantRest(line)
                       IN  IF rest # <<>> /\ parse_scalar(rest)[2]
                           THEN <<parse_scalar(rest)[1], idx + 1>>
                           ELSE IF rest # <<>> /\ rest = TokArrayOpen
                           THEN parse_array(lines, idx + 1)
                           ELSE parse_dbus_value(lines, idx + 1)
             ELSE IF line = TokArrayOpen THEN parse_array(lines, idx + 1)
             ELSE IF line = TokArrayClose THEN parse_dbus_value(lines, idx + 1)
             ELSE IF line = TokDictOpen THEN DictEntry(lines, idx + 1)
             ELSE parse_dbus_value(lines, idx + 1)

\* the loop of _parse_array
parse_array_loop(lines, idx, items, has_dict_entries) ==
    IF idx >= Len(lines) THEN <<ArrayResult(items, has_dict_entries), idx>>
    ELSE LET inner == Strip(lines[idx + 1])
         IN  IF inner = TokArrayClose
             THEN <<ArrayResult(items, has_dict_entries), idx + 1>>
             ELSE LET r == parse_dbus_value(lines, idx)
                  IN  IF IsRaise(r[1]) THEN r
                      ELSE parse_array_loop(lines, r[2],
                               IF KeepItem(r[1]) THEN Append(items, r[1]) ELSE items,
                               has_dict_entries \/ inner = TokDictOpen)

\* the payload lines: every line but the "method return" ones
Payload(lines) == SelectSeq(lines, LAMBDA l : ~StartsWith(Strip(l), TokMethodReturn))

\* _parse_dbus_send_output
parse_dbus_send_output(output) ==
    LET payload == Payload(SplitLines(Strip(output)))
    IN  IF payload = <<>> THEN Str(<<>>)
        ELSE parse_dbus_value(payload, 0)[1]

-----------------------------------------------------------------------------
(* Replies as the bus tool prints them.  A shape is the printed value's     *)
(* tree, [n, tag, c, kids]; Render lays it out the way dbus-send's          *)
(* --print-reply does: one line per scalar, three spaces of indent per      *)
(* level, a variant's payload on the variant line (or, for the other form   *)
(* the parser accepts, on the following line), a string value's own line    *)
(* breaks left in place.                                                    *)

MaxStrLines == 3

MaxKids == 2

Scalar(tag, c) == [n |-> "scalar", tag |-> tag, c |-> c, kids |-> <<>>]

Arr(kids) == [n |-> "array", tag |-> "", c |-> <<>>, kids |-> kids]

Entry(key, val) == [n |-> "entry", tag |-> "", c |-> <<>>, kids |-> <<key, val>>]

Variant(form, payload) == [n |-> "variant", tag |-> form, c |-> <<>>, kids |-> <<payload>>]

Junk(line) == [n |-> "junk", tag |-> "", c |-> line, kids |-> <<>>]

Void == [n |-> "void", tag |-> "", c |-> <<>>, kids |-> <<>>]

TagTok(tag) ==
    CASE tag = "string" -> TokString
      [] tag = "int32" -> TokInt32
      [] tag = "int64" -> TokInt64
      [] tag = "uint32" -> TokUint32
      [] tag = "uint64" -> TokUint64
      [] tag = "double" -> TokDouble
      [] tag = "boolean" -> TokBoolean

NumberTags == {"int32", "int64", "uint32", "uint64", "double", "boolean"}

TagTexts(tag) ==
    CASE tag \in {"int32", "int64"} -> {<<"5">>, <<"-", "1">>}
      [] tag \in {"uint32", "uint64"} -> {<<"5">>, <<"0">>}
      [] tag = "double" -> {<<"1", ".", "5">>}
      [] tag = "boolean" -> {<<"t", "r", "u", "e">>, <<"f", "a", "l", "s", "e">>}

\* what one line of a string value may hold: nothing, a letter, a text that
\* ends in a quote character, a text with blanks around it
StrLineContents == {<<>>, <<"a">>, <<"b", "\"">>, <<" ", "c", " ">>}

SeqsOfLen(S, n) == [1..n -> S]

\* the string values: 1..MaxStrLines line contents joined by newlines
StringValues == {JoinLines(ls) : ls \in UNION {SeqsOfLen(StrLineContents, n) : n \in 1..MaxStrLines}}

LinesOf(cs) == Cardinality({i \in 1..Len(cs) : cs[i] = "\n"}) + 1

ScalarShapes ==
    {Scalar("string", v) : v \in StringValues}
    \cup UNION {{Scalar(t, c) : c \in TagTexts(t)} : t \in NumberTags}

S(c) == Scalar("string", c)

\* the children an array is built from
ArrayKids ==
    { S(<<>>), S(<<"a">>), Scalar("int32", <<"5">>),
      Arr(<<>>), Arr(<<S(<<"a">>)>>),
      Entry(S(<<"k">>), S(<<"v">>)),
      Entry(S(<<"j">>), Variant("inline", S(<<>>))),
      Entry(Arr(<<>>), S(<<"v">>)),
      Junk(<<"s", "t", "r", "u", "c", "t", " ", "{">>) }

ArrayShapes == {Arr(ks) : ks \in UNION {SeqsOfLen(ArrayKids, n) : n \in 0..MaxKids}}

PlainShapes == ScalarShapes \cup ArrayShapes

Shapes ==
    PlainShapes \cup {Void}
    \cup {Variant(f, p) : f \in {"inline", "next"}, p \in PlainShapes}

Indent(d) == [i \in 1..(3 * d) |-> " "]

RECURSIVE Render(_, _)
RECURSIVE RenderAll(_, _)
RenderAll(kids, d) ==
    IF kids = <<>> THEN <<>> ELSE Render(Head(kids), d) \o RenderAll(Tail(kids), d)

Render(sh, d) ==
    CASE sh.n = "scalar" ->
            <<Indent(d) \o TagTok(sh.tag) \o sh.c \o (IF sh.tag = "string" THEN Quote ELSE <<>>)>>
      [] sh.n = "array" ->
            <<Indent(d) \o TokArrayOpen>> \o RenderAll(sh.kids, d + 1) \o <<Indent(d) \o TokArrayClose>>
      [] sh.n = "entry" ->
            <<Indent(d) \o TokDictOpen>> \o RenderAll(sh.kids, d + 1) \o <<Indent(d) \o TokDictClose>>
      [] sh.n = "variant" /\ sh.tag = "inline" ->
            LET p == Render(sh.kids[1], d + 1)
            IN  <<Indent(d) \o TokVariant \o <<" ">> \o Head(p)>> \o Tail(p)
      [] sh.n = "variant" /\ sh.tag = "next" ->
            <<Indent(d) \o TokVariant>> \o Render(sh.kids[1], d + 1)
      [] sh.n = "junk" -> <<Indent(d) \o sh.c>>
      [] sh.n = "void" -> <<>>

HeaderLine == TokMethodReturn \o <<"t", "i", "m", "e", "=", "1">>

\* the text of a reply: the header line, if printed, then the value
ReplyText(sh, h) == JoinLines((IF h THEN <<HeaderLine>> ELSE <<>>) \o Render(sh, 1))

-----------------------------------------------------------------------------
(* Service discovery *)

\* constants.py: DBUS_SERVICE_PREFIX and DBUS_SERVICE
DBUS_SERVICE_PREFIX == <<"o", "r", "g", ".", "k", "d", "e", ".", "k", "d", "e", "n", "l", "i", "v", "e">>

DBUS_SERVICE == <<"o", "r", "g", ".", "k", "d", "e", ".", "k", "d", "e", "n", "l", "i", "v", "e">>

\* value.rstrip('"')
RStripQuotes(s) ==
    LET keep == {i \in 1..Len(s) : s[i] # "\""}
    IN  IF keep = {} THEN <<>>
        ELSE SubSeq(s, 1, CHOOSE i \in keep : \A j \in keep : i >= j)

\* the scan of the ListNames reply: the first matching name, else the fallback
RECURSIVE scan_names(_)
scan_names(lines) ==
    IF lines = <<>> THEN DBUS_SERVICE
    ELSE LET line == Strip(Head(lines))
             value == RStripQuotes(From(line, 8))
         IN  IF StartsWith(line, TokString) /\ StartsWith(value, DBUS_SERVICE_PREFIX \o <<"-">>)
             THEN value
             ELSE scan_names(Tail(lines))

\* _discover_service.  tool: whether _find_dbus_tool found dbus-send; run:
\* a discovery that answers with no address when it cannot list the names
discover_service_no_fallback(tool, run, stdout) ==
    IF tool = "missing" THEN Str(<<>>)
    ELSE IF run \in {"exit0", "exit1"} THEN Str(scan_names(SplitLines(stdout)))
    ELSE IF run \in {"FileNotFoundError", "TimeoutExpired", "CalledProcessError"}
    THEN Str(<<>>)
    ELSE Raise(run)

\* how subprocess.run ended ("exit0", "exit1": it completed, stdout is read
\* whatever the exit status; else the exception it raised); stdout: its text.
\* The result is the address, or the exception that escapes.
discover_service(tool, run, stdout) ==
    IF tool = "missing" THEN Str(DBUS_SERVICE)
    ELSE IF run \in {"exit0", "exit1"} THEN Str(scan_names(SplitLines(stdout)))
    ELSE IF run \in {"FileNotFoundError", "TimeoutExpired", "CalledProcessError"}
    THEN Str(DBUS_SERVICE)
    ELSE Raise(run)

\* the bus names of the model: two instances of the application, one other
Instance1 == DBUS_SERVICE_PREFIX \o <<"-", "1", "0", "1">>

Instance2 == DBUS_SERVICE_PREFIX \o <<"-", "2", "0", "2">>

OtherName == <<"o", "r", "g", ".", "f", "r", "e", "e", "d", "e", "s", "k", "t", "o", "p", ".", "D", "B", "u", "s">>

BusNames == {Instance1, Instance2, OtherName}

MaxNames == 2

\* what the bus lists: up to MaxNames names
Listings == UNION {SeqsOfLen(BusNames, n) : n \in 0..MaxNames}

\* the ListNames reply as dbus-send prints it
ListNamesText(names) == ReplyText(Arr([i \in 1..Len(names) |-> S(names[i])]), TRUE)

ToolFound == {"found", "missing"}

RunEnds == {"exit0", "exit1", "FileNotFoundError", "TimeoutExpired", "PermissionError"}

\* every result discovery can have in the model's environments
Discoveries ==
    {discover_service(tl, rn, IF rn = "exit1" THEN <<>> ELSE ListNamesText(ns)) :
        tl \in ToolFound, rn \in RunEnds, ns \in Listings}

-----------------------------------------------------------------------------
(* Transport selection *)

Bindings == {"pydbus", "dbus_next", "jeepney"}

\* _get_dbus_backend: the first importable binding, else None
get_dbus_backend(inst) ==
    IF "pydbus" \in inst THEN "pydbus"
    ELSE IF "dbus_next" \in inst THEN "dbus_next"
    ELSE IF "jeepney" \in inst THEN "jeepney"
    ELSE "None"

\* a _connect that leaves a proxy behind for the async binding
connect_async_proxy(b) ==
    IF b \in {"pydbus", "dbus_next"} THEN <<b, TRUE>> ELSE <<"subprocess", FALSE>>

\* _connect: <<self._backend, self._proxy is not None>>
connect(b) == IF b = "pydbus" THEN <<"pydbus", TRUE>> ELSE <<"subprocess", FALSE>>

-----------------------------------------------------------------------------
(* The subprocess transport *)

Tools == <<"dbus-send", "qdbus", "gdbus">>

\* how one subprocess.run of a tool ends: the tool is absent
\* (FileNotFoundError), exits non-zero (CalledProcessError, check=True),
\* exceeds the timeout (TimeoutExpired), or exits successfully
ToolStatus == {"absent", "nonzero", "timeout", "ok"}

Statuses == [1..3 -> ToolStatus]

ErrorOf(status) ==
    CASE status = "absent" -> "FileNotFoundError"
      [] status = "nonzero" -> "CalledProcessError"
      [] status = "timeout" -> "TimeoutExpired"

ToolError(i, status) == [k |-> "raise", s |-> <<ErrorOf(status), Tools[i]>>, items |-> <<>>]

\* what each tool prints for a method that returns true
DbusSendStdout == ReplyText(Scalar("boolean", <<"t", "r", "u", "e">>), TRUE) \o <<"\n">>

QdbusStdout == <<"t", "r", "u", "e", "\n">>

GdbusStdout == <<"(", "t", "r", "u", "e", ",", ")", "\n">>

\* return self._parse_dbus_send_output(result.stdout.strip())
DbusSendReturn == parse_dbus_send_output(Strip(DbusSendStdout))

\* the value returned when tool i exits successfully
ToolReturn(i) ==
    CASE i = 1 -> DbusSendReturn
      [] i = 2 -> Str(Strip(QdbusStdout))
      [] i = 3 -> Str(Strip(GdbusStdout))

\* the exceptions each tool's try block catches, after which the next tool is tried
Caught(i) ==
    CASE i = 1 -> {"absent", "nonzero"}
      [] i = 2 -> {"absent"}
      [] i = 3 -> {}

\* _call_subprocess from tool i on: the tools run and the value returned or
\* the exception raised
RECURSIVE try_tools(_, _, _)
try_tools(st, i, ran) ==
    IF st[i] = "ok" THEN [ran |-> Append(ran, Tools[i]), res |-> ToolReturn(i)]
    ELSE IF st[i] \in Caught(i) THEN try_tools(st, i + 1, Append(ran, Tools[i]))
    ELSE [ran |-> Append(ran, Tools[i]), res |-> ToolError(i, st[i])]

call_subprocess(st) == try_tools(st, 1, <<>>)

-----------------------------------------------------------------------------
(* The remote call facade: _call, one step at a time for each caller *)

Callers == {1, 2}

NoRun == [ran |-> <<>>, res |-> PyNone]

NoStatus == [i \in 1..3 |-> "none"]

IdleCall ==
    [pc |-> "idle", attempts |-> 0, discoveries |-> 0, used |-> <<>>,
     old_svc |-> PyNone, found |-> PyNone, err |-> PyNone,
     st |-> NoStatus, run |-> NoRun, outcome |-> PyNone]

\* a retry placed inside the try block: a failed retry is caught again
AfterAttemptCaughtAgain(n, failed, native) ==
    IF failed /\ ~native THEN "except" ELSE "done"

\* a retry that does not look at the rediscovered address
ShouldRetryAlways(new, old) == TRUE

\* where _call goes after an attempt: only the first attempt of the
\* subprocess path is inside the try block
AfterAttempt(n, failed, native) ==
    IF failed /\ n = 1 /\ ~native THEN "except" ELSE "done"

\* the test that decides the retry
ShouldRetry(new, old) == new # old

\* the state of the client parked, for the specifications of other components
ParkedCall ==
    /\ installed = {}
    /\ backend = "subprocess"
    /\ proxy = FALSE
    /\ service = Str(DBUS_SERVICE)
    /\ call = [c \in Callers |-> IdleCall]

\* the parser parked, for the specifications of other components
ParkedParse ==
    /\ shape = Void
    /\ hdr = FALSE
    /\ reply = <<>>
    /\ result = PyNone
    /\ ppc = "parked"

\* __init__: the backend is selected, the service discovered, the transport
\* connected; the states are those of a construction that did not raise
InitCall ==
    /\ ParkedScripts
    /\ ParkedParse
    /\ coerce = Parked /\ probe = Parked /\ opening = Parked
    /\ tracks = Parked /\ item = Parked /\ importing = Parked
    /\ installed \in SUBSET Bindings
    /\ service \in {d \in Discoveries : ~IsRaise(d)}
    /\ backend = connect(get_dbus_backend(installed))[1]
    /\ proxy = connect(get_dbus_backend(installed))[2]
    /\ call = [c \in Callers |-> IdleCall]

\* the native path: func(*args) on the proxy, its error propagates
NativeCall(c) ==
    /\ call[c].pc = "idle"
    /\ proxy
    /\ \E ok \in BOOLEAN :
          call' = [call EXCEPT ![c] =
                      [IdleCall EXCEPT
                          !.pc = AfterAttempt(1, ~ok, TRUE),
                          !.attempts = 1,
                          !.used = <<service>>,
                          !.err = IF ok THEN PyNone ELSE Raise("GLib.Error"),
                          !.outcome = IF ok THEN Str(<<"True">>) ELSE Raise("GLib.Error")]]
    /\ UNCHANGED <<installed, backend, proxy, service>>
    /\ UNCHANGED <<pvars, ovars, svars>>

\* the first _call_subprocess, inside the try block
FirstAttempt(c) ==
    /\ call[c].pc = "idle"
    /\ ~proxy
    /\ \E st \in Statuses :
          LET r == call_subprocess(st)
          IN  call' = [call EXCEPT ![c] =
                          [IdleCall EXCEPT
                              !.pc = AfterAttempt(1, IsRaise(r.res), FALSE),
                              !.attempts = 1,
                              !.used = <<service>>,
                              !.st = st,
                              !.run = r,
                              !.err = IF IsRaise(r.res) THEN r.res ELSE PyNone,
                              !.outcome = r.res]]
    /\ UNCHANGED <<installed, backend, proxy, service>>
    /\ UNCHANGED <<pvars, ovars, svars>>

\* old_svc = self._service
ReadOld(c) ==
    /\ call[c].pc = "except"
    /\ call' = [call EXCEPT ![c].pc = "discover", ![c].old_svc = service,
                            ![c].st = NoStatus, ![c].run = NoRun]
    /\ UNCHANGED <<installed, backend, proxy, service>>
    /\ UNCHANGED <<pvars, ovars, svars>>

\* self._service = self._discover_service(); an exception of the discovery
\* escapes _call and leaves self._service as it was
Rediscover(c) ==
    /\ call[c].pc = "discover"
    /\ \E d \in Discoveries :
          IF IsRaise(d)
          THEN /\ call' = [call EXCEPT ![c].pc = "done", ![c].outcome = d,
                                       ![c].discoveries = @ + 1]
               /\ UNCHANGED service
          ELSE /\ call' = [call EXCEPT ![c].pc = "compare", ![c].found = d,
                                       ![c].discoveries = @ + 1]
               /\ service' = d
    /\ UNCHANGED <<installed, backend, proxy>>
    /\ UNCHANGED <<pvars, ovars, svars>>

\* if self._service != old_svc: retry, else raise the error caught
Compare(c) ==
    /\ call[c].pc = "compare"
    /\ call' = [call EXCEPT ![c].pc =
                    IF ShouldRetry(service, call[c].old_svc) THEN "retry" ELSE "done"]
    /\ UNCHANGED <<installed, backend, proxy, service>>
    /\ UNCHANGED <<pvars, ovars, svars>>

\* the second _call_subprocess, outside the try block
Retry(c) ==
    /\ call[c].pc = "retry"
    /\ \E st \in Statuses :
          LET r == call_subprocess(st)
              n == call[c].attempts + 1
          IN  call' = [call EXCEPT ![c].pc = AfterAttempt(n, IsRaise(r.res), FALSE),
                                   ![c].attempts = n,
                                   ![c].used = Append(@, service),
                                   ![c].st = st,
                                   ![c].run = r,
                                   ![c].outcome = r.res]
    /\ UNCHANGED <<installed, backend, proxy, service>>
    /\ UNCHANGED <<pvars, ovars, svars>>

\* _call has returned or raised; the caller makes its next call
Return(c) ==
    /\ call[c].pc = "done"
    /\ call' = [call EXCEPT ![c] = IdleCall]
    /\ UNCHANGED <<installed, backend, proxy, service>>
    /\ UNCHANGED <<pvars, ovars, svars>>

CallStep(c) ==
    \/ NativeCall(c)
    \/ FirstAttempt(c)
    \/ ReadOld(c)
    \/ Rediscover(c)
    \/ Compare(c)
    \/ Retry(c)
    \/ Return(c)

\* one caller, as the design assumes
NextCall == \E c \in {1} : CallStep(c)

SpecCall == InitCall /\ [][NextCall]_vars

-----------------------------------------------------------------------------
(* The parser's specification: a reply is drawn, then parsed *)

InitParse ==
    /\ ParkedScripts
    /\ ParkedCall
    /\ coerce = Parked /\ probe = Parked /\ opening = Parked
    /\ tracks = Parked /\ item = Parked /\ importing = Parked
    /\ shape \in Shapes
    /\ hdr \in BOOLEAN
    /\ reply = ReplyText(shape, hdr)
    /\ result = PyNone
    /\ ppc = "ready"

Parse ==
    /\ ppc = "ready"
    /\ result' = parse_dbus_send_output(reply)
    /\ ppc' = "done"
    /\ UNCHANGED <<shape, hdr, reply>>
    /\ UNCHANGED <<cvars, ovars, svars>>

NextParse == Parse

SpecParse == InitParse /\ [][NextParse]_vars

-----------------------------------------------------------------------------
(* What the claims expect of the parser *)

\* the value a printed shape stands for: a scalar's text, an array's
\* children in order (a mapping when all of them are dict entries), a dict
\* entry's pair, a variant's payload
RECURSIVE Value(_)
Value(sh) ==
    CASE sh.n = "scalar" -> Str(sh.c)
      [] sh.n = "array" ->
            IF sh.kids # <<>> /\ \A i \in 1..Len(sh.kids) : sh.kids[i].n = "entry"
            THEN Dict([i \in 1..Len(sh.kids) |-> Value(sh.kids[i])])
            ELSE List([i \in 1..Len(sh.kids) |-> Value(sh.kids[i])])
      [] sh.n = "entry" -> Tuple(Value(sh.kids[1]), Value(sh.kids[2]))
      [] sh.n = "variant" -> Value(sh.kids[1])
      [] OTHER -> PyNone

\* a reply of the grammar: no unrecognized line, every dict entry keyed by a
\* scalar, the keys of one array distinct
RECURSIVE WellFormed(_)
WellFormed(sh) ==
    /\ sh.n # "junk"
    /\ \A i \in 1..Len(sh.kids) : WellFormed(sh.kids[i])
    /\ sh.n = "entry" => sh.kids[1].n = "scalar"
    /\ sh.n = "array" =>
          \A i, j \in 1..Len(sh.kids) :
              (i # j /\ sh.kids[i].n = "entry" /\ sh.kids[j].n = "entry")
                  => sh.kids[i].kids[1] # sh.kids[j].kids[1]

AllEntries(sh) == \A i \in 1..Len(sh.kids) : sh.kids[i].n = "entry"

NoEntries(sh) == \A i \in 1..Len(sh.kids) : sh.kids[i].n # "entry"

ArrayParsed == ppc = "done" /\ shape.n = "array" /\ WellFormed(shape)

\* C1: a well-formed array whose children are all dict entries parses to the
\* mapping of exactly those pairs; an array with any child that is not a dict
\* entry (a scalar of any value, the empty string included, or a nested
\* array) parses to a sequence, never to a mapping of some of the children.
C1_MapOnlyIfAllPairs ==
    (ArrayParsed /\ shape.kids # <<>>) =>
        IF AllEntries(shape) THEN result = Value(shape) ELSE result.k = "list"

\* the lines of a string value, and the lines between its first and last
ValueLines(cs) == SplitLines(cs \o <<"\n", "x">>)

MiddleLinesOpen(cs) ==
    \A i \in 2..(LinesOf(cs) - 1) : ~IsClosingLine(RStrip(ValueLines(cs)[i]))

MultilineParsed ==
    /\ ppc = "done" /\ shape.n = "scalar" /\ shape.tag = "string"
    /\ LinesOf(shape.c) >= 2
    /\ MiddleLinesOpen(shape.c)

\* C2: a string value that spans k >= 2 raw lines parses to one string, the
\* k line contents joined by k-1 newlines with the two surrounding quotes
\* removed, whatever the line contents are (an empty first line, a first
\* line that ends in a quote character).
C2_MultilineJoined == MultilineParsed => result = Str(shape.c)

\* C3: a value wrapped in a variant, the payload on the variant line or on
\* the following line, parses to what the value parses to without the wrapper.
C3_VariantTransparent ==
    (ppc = "done" /\ shape.n = "variant") =>
        result = parse_dbus_send_output(ReplyText(shape.kids[1], hdr))

ScalarLineParsed == ppc = "done" /\ shape.n = "scalar" /\ LinesOf(shape.c) = 1

\* the Python type a type tag names
TagType(tag) ==
    CASE tag = "string" -> "str"
      [] tag \in {"int32", "int64", "uint32", "uint64"} -> "int"
      [] tag = "double" -> "float"
      [] tag = "boolean" -> "bool"

\* C4 (as claimed): a single scalar line parses to a value of the type its
\* tag names: text, integer, float or boolean.
C4_ScalarTyped == ScalarLineParsed => result.k = TagType(shape.tag)

\* C4 (amended): a single scalar line of any of the seven tags parses to a
\* str, the text printed after the tag, with no tag text and no surrounding
\* quote left in it.
C4_ScalarText == ScalarLineParsed => result = Str(shape.c)

C4_Witness ==
    /\ ScalarLineParsed /\ hdr
    /\ shape.tag = "int32" /\ shape.c = <<"5">>
    /\ result = Str(<<"5">>)

\* C5: a well-formed array of n >= 0 children none of which is a dict entry
\* parses to the sequence of the n children's values in order, the children
\* whose value is the empty string included.
C5_SequenceOfAllChildren ==
    (ArrayParsed /\ NoEntries(shape)) => result = Value(shape)

\* C6: the parser raises on no reply text, well-formed or malformed.
C6_NeverRaises == ppc = "done" => ~IsRaise(result)

-----------------------------------------------------------------------------
(* What the claims expect of the facade *)

\* C7: one logical call attempts the transport at most twice; after the
\* second attempt the call is over whatever its result, so a call whose
\* first attempt and retry both fail raises the retry's error after exactly
\* one retry and one rediscovery.
C7_RetryBound ==
    \A c \in Callers :
        /\ call[c].attempts <= 2
        /\ call[c].attempts = 2 =>
              /\ call[c].pc = "done"
              /\ call[c].discoveries = 1
              /\ call[c].outcome = call[c].run.res

C7_Witness ==
    /\ call[1].pc = "done"
    /\ call[1].attempts = 2
    /\ IsRaise(call[1].err)
    /\ IsRaise(call[1].outcome)

\* a subprocess-mode call that is over and whose first attempt failed
FailedFirst(c) == ~proxy /\ call[c].pc = "done" /\ IsRaise(call[c].err)

\* C8: in subprocess mode with one caller, a call whose first attempt failed
\* re-ran discovery exactly once; it made a second attempt, against the
\* rediscovered address, if and only if that address differs from the one
\* the failed attempt used; when the address is the same the error of the
\* first attempt is raised, there is no second attempt and the stored
\* address is unchanged.
C8_RetryIffAddressChanged ==
    \A c \in Callers :
        FailedFirst(c) =>
            /\ call[c].discoveries = 1
            /\ call[c].attempts = 2 =>
                  /\ call[c].found # PyNone
                  /\ call[c].found # call[c].used[1]
                  /\ call[c].used[2] = call[c].found
            /\ (call[c].found # PyNone /\ call[c].found # call[c].used[1]) =>
                  call[c].attempts = 2
            /\ call[c].found = call[c].used[1] =>
                  /\ call[c].attempts = 1
                  /\ call[c].outcome = call[c].err
                  /\ service = call[c].used[1]

C8_Witness ==
    /\ FailedFirst(1)
    /\ call[1].attempts = 2
    /\ call[1].used[1] = Str(Instance1)
    /\ call[1].used[2] = Str(Instance2)
    /\ service = Str(Instance2)
    /\ ~IsRaise(call[1].outcome)

\* C9: a failed call through the native handle re-runs discovery once (and
\* is retried once when the address changed) before its error reaches the
\* caller.
C9_NativeFailureRediscovers ==
    \A c \in Callers :
        (proxy /\ call[c].pc = "done" /\ IsRaise(call[c].err)) =>
            call[c].discoveries = 1

\* the first tool, in the order tried, that exits successfully (0: none)
FirstOk(st) ==
    IF \E i \in 1..3 : st[i] = "ok"
    THEN CHOOSE i \in 1..3 : st[i] = "ok" /\ \A j \in 1..(i - 1) : st[j] # "ok"
    ELSE 0

\* C10: whatever combination of absent, failing and succeeding tools one
\* subprocess call meets, it returns the output of the first of dbus-send,
\* qdbus, gdbus that exits successfully, having run no tool after it and
\* skipped every absent or failing tool before it; it raises only when all
\* three were tried, and then the error of the last.
C10_FirstWorkingToolWins ==
    \A c \in Callers :
        LET st == call[c].st
            i == FirstOk(st)
        IN  (\A j \in 1..3 : st[j] \in {"absent", "nonzero", "ok"}) =>
                IF i > 0
                THEN call[c].run = [ran |-> SubSeq(Tools, 1, i), res |-> ToolReturn(i)]
                ELSE call[c].run = [ran |-> Tools, res |-> ToolError(3, st[3])]

-----------------------------------------------------------------------------
(* Boolean-returning facade operations: what they make of _call's result *)

PyBool(b) == [k |-> "bool", s |-> <<IF b THEN "True" ELSE "False">>, items |-> <<>>]

\* bool(v)
Truthy(v) ==
    CASE v.k = "bool" -> v = PyBool(TRUE)
      [] v.k = "str" -> v.s # <<>>
      [] v.k \in {"list", "dict"} -> v.items # <<>>
      [] v.k = "tuple" -> TRUE
      [] OTHER -> FALSE

LowerChar(ch) ==
    CASE ch = "T" -> "t" [] ch = "R" -> "r" [] ch = "U" -> "u" [] ch = "E" -> "e"
      [] ch = "F" -> "f" [] ch = "A" -> "a" [] ch = "L" -> "l" [] ch = "S" -> "s"
      [] OTHER -> ch

\* str.lower
Lower(s) == [i \in 1..Len(s) |-> LowerChar(s[i])]

TextTrue == <<"t", "r", "u", "e">>

TextFalse == <<"f", "a", "l", "s", "e">>

\* return bool(self._call(...))
coerce_plain(r) == PyBool(Truthy(r))

\* if isinstance(result, str): return result.lower() == "true"
\* return bool(result)
coerce_lower(r) ==
    IF r.k = "str" THEN PyBool(Lower(r.s) = TextTrue) ELSE PyBool(Truthy(r))

\* the operations that return bool(self._call(...))
PlainBoolOps ==
    {"open_project", "save_project", "save_project_as", "set_project_property",
     "delete_bin_clip", "move_clip", "delete_timeline_clip", "cut_clip",
     "add_mix", "remove_mix", "add_guide", "delete_guide", "set_track_mute"}

\* the operations that compare the lower-cased text with "true"
LowerBoolOps == {"delete_track", "undo", "redo", "insert_space", "remove_space"}

\* the text of a boolean reply, in the letter cases a tool may print
BoolTexts ==
    {TextTrue, <<"T", "r", "u", "e">>, <<"T", "R", "U", "E">>,
     TextFalse, <<"F", "a", "l", "s", "e">>, <<"F", "A", "L", "S", "E">>}

Transports == {"dbus-send", "qdbus", "gdbus", "native"}

\* what _call returns for a boolean reply: the parsed dbus-send text, the
\* stripped text of qdbus or gdbus, or the native binding's bool
CallReturn(via, text) ==
    CASE via = "dbus-send" ->
            parse_dbus_send_output(Strip(ReplyText(Scalar("boolean", text), TRUE) \o <<"\n">>))
      [] via = "qdbus" -> Str(Strip(text \o <<"\n">>))
      [] via = "gdbus" -> Str(Strip(<<"(">> \o text \o <<",", ")", "\n">>))
      [] via = "native" -> PyBool(Lower(text) = TextTrue)

InitCoerce ==
    /\ ParkedScripts
    /\ ParkedParse /\ ParkedCall
    /\ probe = Parked /\ opening = Parked
    /\ tracks = Parked /\ item = Parked /\ importing = Parked
    /\ \E op \in PlainBoolOps \cup LowerBoolOps, via \in Transports, text \in BoolTexts :
          coerce = [pc |-> "ready", op |-> op, via |-> via, text |-> text,
                    got |-> PyNone, ret |-> PyNone]

PlainBoolOp ==
    /\ coerce.pc = "ready"
    /\ coerce.op \in PlainBoolOps
    /\ LET r == CallReturn(coerce.via, coerce.text)
       IN  coerce' = [coerce EXCEPT !.pc = "done", !.got = r, !.ret = coerce_plain(r)]
    /\ UNCHANGED <<pvars, cvars, probe, opening, tracks, item, importing, svars>>

LowerBoolOp ==
    /\ coerce.pc = "ready"
    /\ coerce.op \in LowerBoolOps
    /\ LET r == CallReturn(coerce.via, coerce.text)
       IN  coerce' = [coerce EXCEPT !.pc = "done", !.got = r, !.ret = coerce_lower(r)]
    /\ UNCHANGED <<pvars, cvars, probe, opening, tracks, item, importing, svars>>

NextCoerce == PlainBoolOp \/ LowerBoolOp

SpecCoerce == InitCoerce /\ [][NextCoerce]_vars

\* an operation that was given the text of a dbus-send or qdbus reply
TextReplyCoerced == coerce.pc = "done" /\ coerce.via \in {"dbus-send", "qdbus"}

\* C11: every boolean-returning operation turns a subprocess reply whose
\* text is 'false', in any letter case, into False and one whose text is
\* 'true' into True, without raising; none returns True for a 'false' reply.
C11_FalseReplyIsFalse ==
    TextReplyCoerced => coerce.ret = PyBool(Lower(coerce.text) = TextTrue)

-----------------------------------------------------------------------------
(* Track pre-validation: the operations that take a track id *)

PyInt(digits) == [k |-> "int", s |-> digits, items |-> <<>>]

Digits == <<"0", "1", "2", "3", "4", "5", "6", "7", "8", "9">>

DigitValue(ch) == (CHOOSE i \in 1..10 : Digits[i] = ch) - 1

\* int(text) of a text of decimal digits
RECURSIVE IntOf(_)
IntOf(cs) ==
    IF cs = <<>> THEN 0 ELSE 10 * IntOf(SubSeq(cs, 1, Len(cs) - 1)) + DigitValue(cs[Len(cs)])

\* the digits of a number below ten
IntText(n) == <<Digits[n + 1]>>

RECURSIVE Ascending(_)
Ascending(ns) ==
    IF ns = {} THEN <<>>
    ELSE LET low == CHOOSE n \in ns : \A m \in ns : n <= m
         IN  <<low>> \o Ascending(ns \ {low})

KeyId == Str(<<"i", "d">>)

\* d.get(key)
DictGet(d, key) ==
    LET at == {i \in 1..Len(d.items) : d.items[i].items[1] = key}
    IN  IF at = {} THEN PyNone ELSE d.items[CHOOSE i \in at : TRUE].items[2]

IsPair(v) == v.k = "tuple"

\* the rows of a listing: a dict as it is, a list of pairs as the dict of
\* its pairs unless that dict is empty, anything else dropped
RECURSIVE info_rows(_)
info_rows(xs) ==
    IF xs = <<>> THEN <<>>
    ELSE LET t == Head(xs)
             d == DictOf(SelectSeq(t.items, IsPair), <<>>)
         IN  (IF t.k = "dict" THEN <<t>>
              ELSE IF t.k = "list" /\ d # <<>> THEN <<Dict(d)>>
              ELSE <<>>) \o info_rows(Tail(xs))

\* get_all_tracks_info, given what _call("scriptGetAllTracksInfo") returned
get_all_tracks_info(r) == IF r.k = "list" THEN info_rows(r.items) ELSE <<>>

\* _get_valid_track_ids, given the rows of the listing
get_valid_track_ids(rows) ==
    {IntOf(DictGet(rows[i], KeyId).s) :
        i \in {j \in 1..Len(rows) : DictGet(rows[j], KeyId) # PyNone}}

\* a pre-validation that lets every track id through
rejects_nothing(valid, track_id) == FALSE

\* if valid and track_id not in valid
rejects(valid, track_id) == valid # {} /\ track_id \notin valid

MaxTrack == 3

TrackIds == 1..MaxTrack

\* a track id no project of the model has
NoSuchTrack == 99

RequestedIds == TrackIds \cup {NoSuchTrack}

ListingTransports == {"dbus-send", "qdbus", "native"}

\* the listing of the remote's tracks as dbus-send prints it: an array of
\* one array of dict entries per track
TracksReply(remote) ==
    LET ids == Ascending(remote)
    IN  ReplyText(Arr([i \in 1..Len(ids) |->
                         Arr(<<Entry(S(<<"i", "d">>),
                                     Variant("inline", Scalar("int32", IntText(ids[i]))))>>)]),
                  TRUE)

\* what qdbus prints for the listing: one line per track
TracksText(remote) ==
    LET ids == Ascending(remote)
    IN  JoinLines([i \in 1..Len(ids) |-> <<"i", "d", ":", " ">> \o IntText(ids[i])])

\* what _call("scriptGetAllTracksInfo") returns over each transport
ListingReturn(via, remote) ==
    CASE via = "dbus-send" -> parse_dbus_send_output(Strip(TracksReply(remote) \o <<"\n">>))
      [] via = "qdbus" -> Str(Strip(TracksText(remote) \o <<"\n">>))
      [] via = "native" ->
            LET ids == Ascending(remote)
            IN  List([i \in 1..Len(ids) |-> Dict(<<Tuple(KeyId, PyInt(IntText(ids[i])))>>)])

InitTracks ==
    /\ ParkedScripts
    /\ ParkedParse /\ ParkedCall
    /\ coerce = Parked /\ probe = Parked /\ opening = Parked
    /\ item = Parked /\ importing = Parked
    /\ \E remote \in SUBSET TrackIds, via \in ListingTransports, track_id \in RequestedIds :
          tracks = [pc |-> "ready", remote |-> remote, via |-> via, track_id |-> track_id,
                    op |-> "", valid |-> {}, sent |-> <<>>, ret |-> ""]

\* the snapshot an operation fetches first
Snapshot == get_valid_track_ids(get_all_tracks_info(ListingReturn(tracks.via, tracks.remote)))

\* an operation with pre-validation: the sentinel and nothing sent when the
\* track is rejected, else the remote call with the track id
Prevalidated(op, method, sentinel) ==
    LET valid == Snapshot
    IN  IF rejects(valid, tracks.track_id)
        THEN [tracks EXCEPT !.pc = "done", !.op = op, !.valid = valid, !.ret = sentinel]
        ELSE [tracks EXCEPT !.pc = "done", !.op = op, !.valid = valid,
                            !.sent = <<<<method, tracks.track_id>>>>,
                            !.ret = "forwarded"]

insert_clip ==
    /\ tracks.pc = "ready"
    /\ tracks' = Prevalidated("insert_clip", "scriptInsertClip", "-1")
    /\ UNCHANGED <<pvars, cvars, coerce, probe, opening, item, importing, svars>>

insert_clips_sequentially ==
    /\ tracks.pc = "ready"
    /\ tracks' = Prevalidated("insert_clips_sequentially",
                              "scriptInsertClipsSequentially", "ValueError")
    /\ UNCHANGED <<pvars, cvars, coerce, probe, opening, item, importing, svars>>

move_clip ==
    /\ tracks.pc = "ready"
    /\ tracks' = Prevalidated("move_clip", "scriptMoveClip", "False")
    /\ UNCHANGED <<pvars, cvars, coerce, probe, opening, item, importing, svars>>

get_clips_on_track ==
    /\ tracks.pc = "ready"
    /\ tracks' = Prevalidated("get_clips_on_track", "scriptGetClipsOnTrack", "[]")
    /\ UNCHANGED <<pvars, cvars, coerce, probe, opening, item, importing, svars>>

NextTracks == insert_clip \/ insert_clips_sequentially \/ move_clip \/ get_clips_on_track

SpecTracks == InitTracks /\ [][NextTracks]_vars

\* the documented sentinel of each operation
Sentinel(op) ==
    CASE op = "insert_clip" -> "-1"
      [] op = "insert_clips_sequentially" -> "ValueError"
      [] op = "move_clip" -> "False"
      [] op = "get_clips_on_track" -> "[]"

\* an operation ran with a track id missing from its non-empty snapshot
UnknownTrackRequested ==
    tracks.pc = "done" /\ tracks.valid # {} /\ tracks.track_id \notin tracks.valid

\* C12: when the requested track id is not in the non-empty snapshot fetched
\* for the operation, the operation gives its sentinel (-1, ValueError, False,
\* an empty list) and issues no remote call of its own.
C12_UnknownTrackRejected ==
    UnknownTrackRequested => tracks.ret = Sentinel(tracks.op) /\ tracks.sent = <<>>

\* an unknown track was rejected although other tracks exist
C12_Witness ==
    /\ UnknownTrackRequested
    /\ tracks.track_id = NoSuchTrack
    /\ tracks.ret = Sentinel(tracks.op)

\* C13: whatever the track listing returns, no operation forwards to the
\* remote a track id that is not in the remote's current track set.
C13_OnlyKnownTracksForwarded ==
    tracks.pc = "done" =>
        \A i \in 1..Len(tracks.sent) : tracks.sent[i][2] \in tracks.remote

-----------------------------------------------------------------------------
(* TimelineItem: a handle on one timeline clip, with its cached info *)

\* a clip of the remote timeline, as scriptGetTimelineClipInfo reports it
Clip(t, p, d) == [there |-> TRUE, trackId |-> t, position |-> p, duration |-> d]

\* the info of a clip the timeline does not have: an empty dict, read
\* through the defaults of _info.get
NoClip == [there |-> FALSE, trackId |-> -1, position |-> 0, duration |-> 0]

\* self._info = None
NoInfo == [loaded |-> FALSE, data |-> NoClip]

Info(c) == [loaded |-> TRUE, data |-> c]

ItemTracks == {0, 1}

ItemPositions == {0, 50, 100}

ItemDurations == {25, 125}

\* the calls made through one handle
MaxCalls == 3

\* a _load_info that fetches on every read
load_info_always_fetch(info, remote) == Info(remote)

\* _load_info: fetch only when nothing is cached
load_info(info, remote) == IF info.loaded THEN info ELSE Info(remote)

\* self._info = None
invalidate(info) == NoInfo

InitItem ==
    /\ ParkedScripts
    /\ ParkedParse /\ ParkedCall
    /\ coerce = Parked /\ probe = Parked /\ opening = Parked
    /\ tracks = Parked /\ importing = Parked
    /\ \E p \in ItemPositions, d \in ItemDurations, given \in BOOLEAN :
          item = [pc |-> "live", remote |-> Clip(0, p, d),
                  info |-> IF given THEN Info(Clip(0, p, d)) ELSE NoInfo,
                  last |-> "", ret |-> 0, calls |-> 0]

ItemCall == item.pc = "live" /\ item.calls < MaxCalls

ItemRest == UNCHANGED <<pvars, cvars, coerce, probe, opening, tracks, importing, svars>>

StartOf(c) == c.position

DurationOf(c) == c.duration

EndOf(c) == c.position + c.duration

TrackOf(c) == c.trackId

\* what a read answers from the info c
Answer(name, c) ==
    CASE name = "GetStart" -> StartOf(c)
      [] name = "GetDuration" -> DurationOf(c)
      [] name = "GetEnd" -> EndOf(c)
      [] name = "GetTrackId" -> TrackOf(c)

\* a read through the handle: load, then answer from the cache
Read(name) ==
    LET info == load_info(item.info, item.remote)
    IN  [item EXCEPT !.info = info, !.last = name, !.ret = Answer(name, info.data),
                     !.calls = item.calls + 1]

GetStart == ItemCall /\ item' = Read("GetStart") /\ ItemRest

GetDuration == ItemCall /\ item' = Read("GetDuration") /\ ItemRest

GetEnd == ItemCall /\ item' = Read("GetEnd") /\ ItemRest

GetTrackId == ItemCall /\ item' = Read("GetTrackId") /\ ItemRest

\* SetDuration: resize on the remote, then the cache is dropped
SetDuration ==
    /\ ItemCall
    /\ \E d \in ItemDurations :
          item' = [item EXCEPT
                     !.remote = IF item.remote.there
                                THEN [item.remote EXCEPT !.duration = d] ELSE item.remote,
                     !.info = invalidate(item.info),
                     !.last = "SetDuration",
                     !.ret = IF item.remote.there THEN d ELSE -1,
                     !.calls = item.calls + 1]
    /\ ItemRest

\* Move: move on the remote, then the cache is dropped
Move ==
    /\ ItemCall
    /\ \E t \in ItemTracks, p \in ItemPositions :
          item' = [item EXCEPT
                     !.remote = IF item.remote.there
                                THEN [item.remote EXCEPT !.trackId = t, !.position = p]
                                ELSE item.remote,
                     !.info = invalidate(item.info),
                     !.last = "Move",
                     !.ret = IF item.remote.there THEN 1 ELSE 0,
                     !.calls = item.calls + 1]
    /\ ItemRest

\* Delete: the clip leaves the remote timeline; the cache is not touched
Delete ==
    /\ ItemCall
    /\ item' = [item EXCEPT !.remote = NoClip,
                            !.last = "Delete",
                            !.ret = IF item.remote.there THEN 1 ELSE 0,
                            !.calls = item.calls + 1]
    /\ ItemRest

\* Cut: the remote is asked to cut; the cache is not touched
Cut ==
    /\ ItemCall
    /\ item' = [item EXCEPT !.last = "Cut",
                            !.ret = IF item.remote.there THEN 1 ELSE 0,
                            !.calls = item.calls + 1]
    /\ ItemRest

NextItem ==
    GetStart \/ GetDuration \/ GetEnd \/ GetTrackId \/ SetDuration \/ Move \/ Delete \/ Cut

SpecItem == InitItem /\ [][NextItem]_vars

\* what the remote holds for the property a read asks for
RemoteValue(name) == Answer(name, item.remote)

Mutators == {"SetDuration", "Move", "Cut", "Delete"}

Readers == {"GetStart", "GetDuration", "GetEnd", "GetTrackId"}

\* C14: after any mutating call made through the handle (SetDuration, Move,
\* Cut, Delete) the cached snapshot is empty, and a read through the handle
\* reports the value the remote holds after the mutation.
C14_CacheDroppedByMutation ==
    /\ item.pc = "live" /\ item.last \in Mutators => ~item.info.loaded
    /\ item.pc = "live" /\ item.last \in Readers => item.ret = RemoteValue(item.last)

-----------------------------------------------------------------------------
(* open_project: up to ten attempts with a growing, capped delay.
   Delays are counted in 1/64 s, in which 0.5 s, its multiples by 1.5 up to
   the cap, and 3.0 s are whole numbers. *)

\* for attempt in range(10)
OpenAttempts == 10

\* delay = 0.5
InitialDelay == 32

\* the 3.0 of min(delay * 1.5, 3.0)
DelayCap == 192

Min(a, b) == IF a <= b THEN a ELSE b

\* a loop that gives up one attempt early
is_last_attempt_early(attempt) == attempt = OpenAttempts - 2

\* if attempt == 9
is_last_attempt(attempt) == attempt = OpenAttempts - 1

\* a delay that grows without a cap
next_delay_uncapped(delay) == (delay * 3) \div 2

\* delay = min(delay * 1.5, 3.0)
next_delay(delay) == Min((delay * 3) \div 2, DelayCap)

\* what an attempt's _call can raise
OpenErrors == {"CalledProcessError", "RuntimeError"}

\* the text of the reply to scriptOpenProject
OpenReplies == {TextTrue, TextFalse}

InitOpen ==
    /\ ParkedScripts
    /\ ParkedParse /\ ParkedCall
    /\ coerce = Parked /\ probe = Parked /\ tracks = Parked
    /\ item = Parked /\ importing = Parked
    /\ opening = [pc |-> "trying", attempt |-> 0, delay |-> InitialDelay,
                  errs |-> <<>>, slept |-> <<>>, made |-> 0, ret |-> PyNone]

OpenRest == UNCHANGED <<pvars, cvars, coerce, probe, tracks, item, importing, svars>>

\* an attempt whose _call returns: open_project returns bool of the reply
AttemptReturns ==
    /\ opening.pc = "trying"
    /\ \E text \in OpenReplies :
          opening' = [opening EXCEPT !.pc = "returned", !.made = opening.made + 1,
                                     !.ret = coerce_plain(Str(text))]
    /\ OpenRest

\* an attempt whose _call raises: the last one re-raises, the others sleep,
\* lengthen the delay and go on; a loop that runs out returns False
AttemptRaises ==
    /\ opening.pc = "trying"
    /\ \E e \in OpenErrors :
          opening' =
             IF is_last_attempt(opening.attempt)
             THEN [opening EXCEPT !.pc = "raised", !.made = opening.made + 1,
                                  !.errs = Append(opening.errs, e), !.ret = Raise(e)]
             ELSE [opening EXCEPT
                      !.pc = IF opening.attempt + 1 < OpenAttempts THEN "trying" ELSE "returned",
                      !.ret = IF opening.attempt + 1 < OpenAttempts THEN PyNone ELSE PyBool(FALSE),
                      !.made = opening.made + 1,
                      !.errs = Append(opening.errs, e),
                      !.slept = Append(opening.slept, opening.delay),
                      !.delay = next_delay(opening.delay),
                      !.attempt = opening.attempt + 1]
    /\ OpenRest

NextOpen == AttemptReturns \/ AttemptRaises

SpecOpen == InitOpen /\ [][NextOpen]_vars

OpenEnded == opening.pc \in {"returned", "raised"}

\* C15: open_project makes at most 10 attempts; it returns the result of
\* the first attempt that does not raise, also when that is the 10th after
\* nine failures; when all 10 fail it raises the 10th error, with no sleep
\* after it.
C15_TenAttempts ==
    /\ opening.pc # "parked" => opening.made <= OpenAttempts
    /\ opening.pc = "returned" =>
          /\ Len(opening.errs) = opening.made - 1
          /\ ~IsRaise(opening.ret)
          /\ opening.ret.k = "bool"
    /\ opening.pc = "raised" =>
          /\ opening.made = OpenAttempts
          /\ Len(opening.errs) = OpenAttempts
          /\ opening.ret = Raise(opening.errs[OpenAttempts])
          /\ Len(opening.slept) = OpenAttempts - 1
    /\ opening.pc = "trying" => Len(opening.errs) = opening.made

\* nine attempts failed and the tenth returned
C15_Witness ==
    /\ opening.pc = "returned"
    /\ opening.made = OpenAttempts
    /\ Len(opening.errs) = OpenAttempts - 1

RECURSIVE Pow(_, _)
Pow(b, e) == IF e = 0 THEN 1 ELSE b * Pow(b, e - 1)

\* C16: the delay slept after the k-th failed attempt is
\* min(0.5 * 1.5^(k-1), 3.0) s; the delays grow strictly until the cap, never
\* exceed 3 s, and a run of 10 attempts sleeps exactly 9 times.
C16_CappedBackoff ==
    opening.pc # "parked" =>
        /\ \A k \in 1..Len(opening.slept) :
              opening.slept[k] * Pow(2, k - 1)
                 = Min(InitialDelay * Pow(3, k - 1), DelayCap * Pow(2, k - 1))
        /\ \A k \in 1..Len(opening.slept) : opening.slept[k] <= DelayCap
        /\ \A k \in 1..(Len(opening.slept) - 1) :
              opening.slept[k] < DelayCap => opening.slept[k] < opening.slept[k + 1]
        /\ Len(opening.slept) <= OpenAttempts - 1
        /\ OpenEnded /\ opening.made = OpenAttempts => Len(opening.slept) = OpenAttempts - 1

\* a run of ten attempts whose last delays sat at the cap
C16_Witness ==
    /\ OpenEnded
    /\ opening.made = OpenAttempts
    /\ Len(opening.slept) = OpenAttempts - 1
    /\ opening.slept[OpenAttempts - 1] = DelayCap
    /\ opening.slept[OpenAttempts - 2] = DelayCap

-----------------------------------------------------------------------------
(* _discover_service on its own, over what the bus may list *)

\* a name with the prefix and a suffix that is no number
DevName == DBUS_SERVICE_PREFIX \o <<"-", "d", "e", "v">>

\* the names a bus listing is drawn from, the generic name among them
ProbeNames == BusNames \cup {DevName, DBUS_SERVICE}

ProbeListings == UNION {SeqsOfLen(ProbeNames, n) : n \in 0..MaxNames}

\* what the listing tool prints: the reply when it exits with 0, nothing
\* on its standard output otherwise
ListingStdout(run, names) == IF run = "exit0" THEN ListNamesText(names) ELSE <<>>

InitProbe ==
    /\ ParkedScripts
    /\ ParkedParse /\ ParkedCall
    /\ coerce = Parked /\ opening = Parked /\ tracks = Parked
    /\ item = Parked /\ importing = Parked
    /\ \E tool \in ToolFound, run \in RunEnds, names \in ProbeListings :
          probe = [pc |-> "ready", tool |-> tool, run |-> run, names |-> names,
                   found |-> PyNone]

Discover ==
    /\ probe.pc = "ready"
    /\ probe' = [probe EXCEPT
                   !.pc = "done",
                   !.found = discover_service(probe.tool, probe.run,
                                              ListingStdout(probe.run, probe.names))]
    /\ UNCHANGED <<pvars, cvars, coerce, opening, tracks, item, importing, svars>>

NextProbe == Discover

SpecProbe == InitProbe /\ [][NextProbe]_vars

\* the listing call is unavailable: no tool, or the run did not exit with 0
ListingUnavailable == probe.tool = "missing" \/ probe.run # "exit0"

\* C17: discovery never raises; when the listing call is unavailable (tool
\* missing, cannot be executed, timed out, non-zero exit) it returns the
\* generic fallback address.
C17_DiscoveryNeverRaises ==
    probe.pc = "done" =>
        /\ ~IsRaise(probe.found)
        /\ ListingUnavailable => probe.found = Str(DBUS_SERVICE)

IsDigit(ch) == \E i \in 1..10 : Digits[i] = ch

\* the prefix, the separator and a numeric suffix
IsInstanceName(n) ==
    LET head == DBUS_SERVICE_PREFIX \o <<"-">>
    IN  /\ StartsWith(n, head)
        /\ Len(n) > Len(head)
        /\ \A i \in (Len(head) + 1)..Len(n) : IsDigit(n[i])

\* the first listed instance name, else the generic address
FirstInstance(names) ==
    LET at == {i \in 1..Len(names) : IsInstanceName(names[i])}
    IN  IF at = {} THEN DBUS_SERVICE ELSE names[CHOOSE i \in at : \A j \in at : i <= j]

\* C18: from a listing, discovery returns the first name made of the prefix,
\* '-' and a numeric suffix, else the generic address; never a name whose
\* suffix is not numeric.
C18_FirstNumericInstance ==
    probe.pc = "done" /\ ~ListingUnavailable =>
        probe.found = Str(FirstInstance(probe.names))

-----------------------------------------------------------------------------
(* The stored service address, over construction, calls and rediscoveries *)

\* a name of one instance: the prefix, the separator, a suffix
InstanceSpecific(n) ==
    StartsWith(n, DBUS_SERVICE_PREFIX \o <<"-">>) /\ Len(n) > Len(DBUS_SERVICE_PREFIX) + 1

\* C19: in every state reachable after construction, through successful
\* calls, failed calls and rediscoveries, the stored service address is
\* non-empty and is an instance-specific name or the generic fallback.
C19_AddressNeverEmpty ==
    /\ service.k = "str"
    /\ service.s # <<>>
    /\ service.s = DBUS_SERVICE \/ InstanceSpecific(service.s)

\* a rediscovery replaced one instance's address by another's
C19_Witness ==
    /\ call[1].discoveries = 1
    /\ call[1].old_svc = Str(Instance1)
    /\ service = Str(Instance2)

-----------------------------------------------------------------------------
(* import_media: one addProjectClip per path, the new bin id found by
   comparing the bin's ids before and after a wait; the editor registers a
   clip in the bin on its own time, or never *)

MaxPaths == 3

\* the clips the bin holds before the import
MaxExisting == 1

MinOf(ns) == CHOOSE n \in ns : \A m \in ns : n <= m

\* sorted(new, key=int)[0]
pick_new(new) == MinOf(new)

InitImport ==
    /\ ParkedScripts
    /\ ParkedParse /\ ParkedCall
    /\ coerce = Parked /\ probe = Parked /\ opening = Parked
    /\ tracks = Parked /\ item = Parked
    /\ \E n \in 1..MaxPaths, existing \in 0..MaxExisting :
          importing = [pc |-> "before", n |-> n, i |-> 1, next |-> existing + 1,
                       bin |-> 1..existing, pending |-> {}, before |-> {},
                       made |-> <<>>, result_ids |-> <<>>]

ImportRest == UNCHANGED <<pvars, cvars, coerce, probe, opening, tracks, item, svars>>

\* ids_before = set(self.get_all_clip_ids()); self._call("addProjectClip", path):
\* the editor creates the clip of this path, not yet in the bin
AddProjectClip ==
    /\ importing.pc = "before"
    /\ importing' = [importing EXCEPT !.pc = "waiting",
                                      !.before = importing.bin,
                                      !.pending = importing.pending \cup {importing.next},
                                      !.made = Append(importing.made, importing.next),
                                      !.next = importing.next + 1]
    /\ ImportRest

\* the editor registers a created clip in the bin
RegisterClip ==
    /\ importing.pc \in {"before", "waiting"}
    /\ \E id \in importing.pending :
          importing' = [importing EXCEPT !.bin = importing.bin \cup {id},
                                         !.pending = importing.pending \ {id}]
    /\ ImportRest

\* after the sleep: ids_after, the new ids, the smallest of them appended if
\* there is any; then the next path, or the return
CollectNew ==
    /\ importing.pc = "waiting"
    /\ LET new == importing.bin \ importing.before
       IN  importing' = [importing EXCEPT
                           !.pc = IF importing.i = importing.n THEN "done" ELSE "before",
                           !.i = importing.i + 1,
                           !.result_ids = IF new # {}
                                          THEN Append(importing.result_ids, pick_new(new))
                                          ELSE importing.result_ids]
    /\ ImportRest

NextImport == AddProjectClip \/ RegisterClip \/ CollectNew

SpecImport == InitImport /\ [][NextImport]_vars

\* C20: import_media called with n paths returns exactly n bin ids in input
\* order, the i-th being the id of the clip created by importing the i-th
\* path, however the editor registers the clips.
C20_OneIdPerPath ==
    importing.pc = "done" =>
        /\ Len(importing.result_ids) = importing.n
        /\ importing.result_ids = importing.made

-----------------------------------------------------------------------------
(* MediaPoolItem's clip markers, kept in memory in self._markers *)

\* every component of the transport and of the facade parked
ParkedFacade ==
    /\ ParkedParse /\ ParkedCall
    /\ coerce = Parked /\ probe = Parked /\ opening = Parked
    /\ tracks = Parked /\ item = Parked /\ importing = Parked

MarkerFrames == {10, 50}

MarkerColors == {"Red", "Blue"}

MarkerDatas == {"", "custom1", "custom2"}

\* the calls made on one item
MaxMarkerCalls == 3

\* no marker at a frame
NoMarker == [there |-> FALSE, color |-> "", customData |-> ""]

Marker(color, data) == [there |-> TRUE, color |-> color, customData |-> data]

\* self._markers = {}
NoMarkers == [f \in MarkerFrames |-> NoMarker]

\* self._markers[frame_id] = {...}; return True
add_marker(ms, f, color, data) ==
    <<[ms EXCEPT ![f] = Marker(color, data)], TRUE>>

\* an update that creates the marker it does not find
update_or_create(ms, f, data) ==
    <<[ms EXCEPT ![f] = Marker(ms[f].color, data)], TRUE>>

\* if frame_id in self._markers: set customData, return True; return False
update_marker_custom_data(ms, f, data) ==
    IF ms[f].there
    THEN <<[ms EXCEPT ![f] = Marker(ms[f].color, data)], TRUE>>
    ELSE <<ms, FALSE>>

\* return self._markers.pop(frame_id, None) is not None
delete_marker_at_frame(ms, f) ==
    <<[ms EXCEPT ![f] = NoMarker], ms[f].there>>

\* delete every marker of the color; True if there was any
delete_markers_by_color(ms, color) ==
    LET to_delete == {f \in MarkerFrames : ms[f].there /\ ms[f].color = color}
    IN  <<[f \in MarkerFrames |-> IF f \in to_delete THEN NoMarker ELSE ms[f]],
          to_delete # {}>>

\* delete every marker with the custom data; True if there was any
delete_marker_by_custom_data(ms, data) ==
    LET to_delete == {f \in MarkerFrames : ms[f].there /\ ms[f].customData = data}
    IN  <<[f \in MarkerFrames |-> IF f \in to_delete THEN NoMarker ELSE ms[f]],
          to_delete # {}>>

InitMarked ==
    /\ ParkedFacade
    /\ encoding = Parked /\ indexing = Parked /\ replacing = Parked /\ building = Parked
    /\ marked = [pc |-> "live", markers |-> NoMarkers, prev |-> NoMarkers,
                 history |-> <<>>, ret |-> TRUE]

MarkedCall == marked.pc = "live" /\ Len(marked.history) < MaxMarkerCalls

\* the item after a call: its markers, what the call returned, the call
\* appended to the history
Called(op, f, color, data, res) ==
    [marked EXCEPT !.markers = res[1], !.ret = res[2], !.prev = marked.markers,
                   !.history = Append(marked.history,
                                      [op |-> op, f |-> f, color |-> color, data |-> data])]

MarkedRest ==
    UNCHANGED <<pvars, cvars, ovars, encoding, indexing, replacing, building>>

AddMarker ==
    /\ MarkedCall
    /\ \E f \in MarkerFrames, color \in MarkerColors, data \in MarkerDatas :
          marked' = Called("AddMarker", f, color, data,
                           add_marker(marked.markers, f, color, data))
    /\ MarkedRest

UpdateMarkerCustomData ==
    /\ MarkedCall
    /\ \E f \in MarkerFrames, data \in MarkerDatas :
          marked' = Called("UpdateMarkerCustomData", f, "", data,
                           update_marker_custom_data(marked.markers, f, data))
    /\ MarkedRest

DeleteMarkerAtFrame ==
    /\ MarkedCall
    /\ \E f \in MarkerFrames :
          marked' = Called("DeleteMarkerAtFrame", f, "", "",
                           delete_marker_at_frame(marked.markers, f))
    /\ MarkedRest

DeleteMarkersByColor ==
    /\ MarkedCall
    /\ \E color \in MarkerColors :
          marked' = Called("DeleteMarkersByColor", 0, color, "",
                           delete_markers_by_color(marked.markers, color))
    /\ MarkedRest

DeleteMarkerByCustomData ==
    /\ MarkedCall
    /\ \E data \in MarkerDatas :
          marked' = Called("DeleteMarkerByCustomData", 0, "", data,
                           delete_marker_by_custom_data(marked.markers, data))
    /\ MarkedRest

NextMarked ==
    \/ AddMarker \/ UpdateMarkerCustomData \/ DeleteMarkerAtFrame
    \/ DeleteMarkersByColor \/ DeleteMarkerByCustomData

SpecMarked == InitMarked /\ [][NextMarked]_vars

\* what one call does to the marker of frame f, said from the call alone
AfterCall(m, c, f) ==
    CASE c.op = "AddMarker" -> IF c.f = f THEN Marker(c.color, c.data) ELSE m
      [] c.op = "UpdateMarkerCustomData" ->
            IF c.f = f /\ m.there THEN Marker(m.color, c.data) ELSE m
      [] c.op = "DeleteMarkerAtFrame" -> IF c.f = f THEN NoMarker ELSE m
      [] c.op = "DeleteMarkersByColor" -> IF m.there /\ m.color = c.color THEN NoMarker ELSE m
      [] c.op = "DeleteMarkerByCustomData" ->
            IF m.there /\ m.customData = c.data THEN NoMarker ELSE m

\* the marker frame f should hold after a history of calls: the one last
\* added and not deleted since, with its latest custom data
RECURSIVE ExpectedAt(_, _)
ExpectedAt(h, f) ==
    IF h = <<>> THEN NoMarker
    ELSE AfterCall(ExpectedAt(SubSeq(h, 1, Len(h) - 1), f), h[Len(h)], f)

MarkersAsExpected ==
    \A f \in MarkerFrames : marked.markers[f] = ExpectedAt(marked.history, f)

LastMarkerCall == marked.history[Len(marked.history)]

UpdatedOrDeleted ==
    /\ marked.pc = "live"
    /\ marked.history # <<>>
    /\ LastMarkerCall.op # "AddMarker"

\* C21: GetMarkers holds for each frame the marker last added there and not
\* deleted since, with its latest custom data; an update or delete returns
\* True if and only if it changed or removed at least one marker, and
\* leaves the markers unchanged when it returns False.
C21_TrueIffChanged ==
    marked.pc = "live" =>
        /\ MarkersAsExpected
        /\ UpdatedOrDeleted => (marked.ret <=> marked.markers # marked.prev)

\* the last call found a marker it applies to
Matched ==
    LET c == LastMarkerCall
    IN  CASE c.op \in {"UpdateMarkerCustomData", "DeleteMarkerAtFrame"} -> marked.prev[c.f].there
          [] c.op = "DeleteMarkersByColor" ->
                \E f \in MarkerFrames : marked.prev[f].there /\ marked.prev[f].color = c.color
          [] c.op = "DeleteMarkerByCustomData" ->
                \E f \in MarkerFrames :
                    marked.prev[f].there /\ marked.prev[f].customData = c.data
          [] OTHER -> TRUE

\* C21, amended: an update or delete returns True if and only if a marker
\* matched it (an update with the data the marker already has returns True
\* and changes nothing); on False the markers are unchanged; a delete
\* returns True if and only if it removed a marker.
C21_TrueIffMatched ==
    marked.pc = "live" =>
        /\ MarkersAsExpected
        /\ UpdatedOrDeleted =>
              /\ marked.ret <=> Matched
              /\ ~marked.ret => marked.markers = marked.prev
              /\ LastMarkerCall.op # "UpdateMarkerCustomData" =>
                    (marked.ret <=> marked.markers # marked.prev)

\* an update with the custom data the marker already had
C21_Witness ==
    /\ UpdatedOrDeleted
    /\ LastMarkerCall.op = "UpdateMarkerCustomData"
    /\ marked.ret
    /\ marked.markers = marked.prev

-----------------------------------------------------------------------------
(* The dbus-send command line: one token per call argument *)

PyFloat(text) == [k |-> "float", s |-> text, items |-> <<>>]

\* a list or a tuple of any length
PySeq(kind, xs) == [k |-> kind, s |-> <<>>, items |-> xs]

TextNone == <<"N", "o", "n", "e">>

\* str(v) of a value that is no sequence
PyStr(v) ==
    CASE v.k = "bool" -> IF v = PyBool(TRUE) THEN <<"T", "r", "u", "e">>
                         ELSE <<"F", "a", "l", "s", "e">>
      [] v.k = "none" -> TextNone
      [] OTHER -> v.s

\* isinstance(v, bool)
IsBool(v) == v.k = "bool"

\* isinstance(v, int): a bool is an int
IsInt(v) == v.k \in {"int", "bool"}

\* isinstance(v, float)
IsFloat(v) == v.k = "float"

\* isinstance(v, (list, tuple))
IsSequence(v) == v.k \in {"list", "tuple"}

\* ",".join(str(item) for item in a)
RECURSIVE JoinItems(_)
JoinItems(xs) ==
    IF xs = <<>> THEN <<>>
    ELSE IF Len(xs) = 1 THEN PyStr(xs[1])
    ELSE PyStr(xs[1]) \o <<",">> \o JoinItems(Tail(xs))

PrefixBoolean == <<"b", "o", "o", "l", "e", "a", "n", ":">>

PrefixInt32 == <<"i", "n", "t", "3", "2", ":">>

PrefixDouble == <<"d", "o", "u", "b", "l", "e", ":">>

PrefixString == <<"s", "t", "r", "i", "n", "g", ":">>

PrefixArray == <<"a", "r", "r", "a", "y", ":">>

\* the token of a sequence argument
array_token(a) ==
    IF Len(a.items) = 0 THEN PrefixArray \o PrefixString
    ELSE IF \A i \in 1..Len(a.items) : IsInt(a.items[i]) /\ ~IsBool(a.items[i])
    THEN PrefixArray \o PrefixInt32 \o JoinItems(a.items)
    ELSE PrefixArray \o PrefixString \o JoinItems(a.items)

\* an encoding that tests for an integer before it tests for a boolean
arg_token_int_first(a) ==
    IF IsInt(a) THEN PrefixInt32 \o PyStr(a)
    ELSE IF IsBool(a) THEN PrefixBoolean \o Lower(PyStr(a))
    ELSE IF IsFloat(a) THEN PrefixDouble \o PyStr(a)
    ELSE IF IsSequence(a) THEN array_token(a)
    ELSE PrefixString \o PyStr(a)

\* the if/elif chain of the loop over args
arg_token(a) ==
    IF IsBool(a) THEN PrefixBoolean \o Lower(PyStr(a))
    ELSE IF IsInt(a) THEN PrefixInt32 \o PyStr(a)
    ELSE IF IsFloat(a) THEN PrefixDouble \o PyStr(a)
    ELSE IF IsSequence(a) THEN array_token(a)
    ELSE PrefixString \o PyStr(a)

\* for a in args: cmd_dbus_send.append(...)
RECURSIVE arg_tokens(_)
arg_tokens(args) ==
    IF args = <<>> THEN <<>> ELSE <<arg_token(Head(args))>> \o arg_tokens(Tail(args))

\* the arguments of a call
MaxArgs == 2

\* the elements of a sequence argument
MaxElems == 2

ElemValues == {PyBool(TRUE), PyInt(<<"5">>), Str(<<"a">>)}

ScalarArgs ==
    {PyBool(TRUE), PyBool(FALSE), PyInt(<<"5">>), PyInt(<<"-", "1">>),
     PyFloat(<<"1", ".", "5">>), Str(<<>>), Str(<<"a">>), PyNone}

\* lists of up to MaxElems elements; the empty tuple and the tuples of one
SequenceArgs ==
    {PySeq("list", xs) : xs \in UNION {SeqsOfLen(ElemValues, n) : n \in 0..MaxElems}}
    \cup {PySeq("tuple", xs) : xs \in UNION {SeqsOfLen(ElemValues, n) : n \in 0..1}}

ArgValues == ScalarArgs \cup SequenceArgs

InitEncoding ==
    /\ ParkedFacade
    /\ marked = Parked /\ indexing = Parked /\ replacing = Parked /\ building = Parked
    /\ \E args \in UNION {SeqsOfLen(ArgValues, n) : n \in 0..MaxArgs} :
          encoding = [pc |-> "ready", args |-> args, tokens |-> <<>>]

BuildCommand ==
    /\ encoding.pc = "ready"
    /\ encoding' = [encoding EXCEPT !.pc = "built", !.tokens = arg_tokens(encoding.args)]
    /\ UNCHANGED <<pvars, cvars, ovars, marked, indexing, replacing, building>>

NextEncoding == BuildCommand

SpecEncoding == InitEncoding /\ [][NextEncoding]_vars

AllPlainInts(xs) == \A i \in 1..Len(xs) : xs[i].k = "int"

\* the token the claim gives an argument
ClaimedToken(a) ==
    CASE a.k = "bool" -> PrefixBoolean \o (IF a = PyBool(TRUE) THEN TextTrue ELSE TextFalse)
      [] a.k = "int" -> PrefixInt32 \o a.s
      [] a.k = "float" -> PrefixDouble \o a.s
      [] a.k \in {"list", "tuple"} /\ a.items = <<>> -> PrefixArray \o PrefixString
      [] a.k \in {"list", "tuple"} /\ a.items # <<>> /\ AllPlainInts(a.items) ->
            PrefixArray \o PrefixInt32 \o JoinItems(a.items)
      [] a.k \in {"list", "tuple"} /\ a.items # <<>> /\ ~AllPlainInts(a.items) ->
            PrefixArray \o PrefixString \o JoinItems(a.items)
      [] OTHER -> PrefixString \o PyStr(a)

\* C22: every call argument yields exactly one token, in argument order: a
\* boolean boolean:true or boolean:false, a non-boolean integer int32:n, a
\* float double:x, an empty sequence array:string:, a sequence of non-boolean
\* integers array:int32: with the elements, any other sequence array:string:
\* with the elements stringified, any other value string:v.
C22_OneTokenPerArgument ==
    encoding.pc = "built" =>
        /\ Len(encoding.tokens) = Len(encoding.args)
        /\ \A i \in 1..Len(encoding.args) : encoding.tokens[i] = ClaimedToken(encoding.args[i])

\* a boolean, then a sequence that holds a boolean among integers
C22_Witness ==
    /\ encoding.pc = "built"
    /\ Len(encoding.args) = 2
    /\ encoding.args[1] = PyBool(FALSE)
    /\ encoding.tokens[1] = PrefixBoolean \o TextFalse
    /\ encoding.args[2] = PySeq("list", <<PyInt(<<"5">>), PyBool(TRUE)>>)
    /\ encoding.tokens[2] = PrefixArray \o PrefixString \o <<"5", ",", "T", "r", "u", "e">>

-----------------------------------------------------------------------------
(* The parser's line cursor *)

\* the lines the recursive descent runs over
ReplyPayload == Payload(SplitLines(Strip(reply)))

\* a call that returned (did not raise) moved the cursor forward, and not
\* past the end of the input
MovedForward(r, idx, n) == ~IsRaise(r[1]) => (r[2] > idx /\ r[2] <= n)

\* C23: parse is a single pass: every call of _parse_dbus_value or
\* _parse_array made with an index inside the input returns a strictly
\* larger index, so the cursor never moves backwards, no line is consumed
\* twice and the parse ends; the same text always yields the same value.
C23_CursorMovesForward ==
    ppc = "done" =>
        LET lines == ReplyPayload
            n == Len(lines)
        IN  /\ \A idx \in 0..(n - 1) :
                  LET value == parse_dbus_value(lines, idx)
                      array == parse_array(lines, idx)
                  IN  /\ MovedForward(value, idx, n)
                      /\ MovedForward(array, idx, n)
            /\ result = parse_dbus_send_output(reply)

\* a parsed reply of an array that holds a nested array and a dict entry
C23_Witness ==
    /\ ppc = "done"
    /\ shape.n = "array"
    /\ Len(shape.kids) = 2
    /\ shape.kids[1].n = "array"
    /\ shape.kids[2].n = "entry"
    /\ ~IsRaise(result)
    /\ parse_array(ReplyPayload, 1)[2] = Len(ReplyPayload)

-----------------------------------------------------------------------------
(* Nested arrays: where _parse_array stops *)

\* what a nested array may hold: values, a dict entry, an empty array, a
\* line the parser does not know (dbus-send prints structs so), a blank line
InnerKids ==
    { S(<<"a">>), Entry(S(<<"k">>), S(<<"v">>)), Arr(<<>>),
      Junk(<<"s", "t", "r", "u", "c", "t", " ", "{">>), Junk(<<>>) }

InnerArrays == {Arr(ks) : ks \in UNION {SeqsOfLen(InnerKids, n) : n \in 0..MaxKids}}

\* a nested array as a child, as a dict entry's value, as a variant's payload
NestedKids ==
    InnerArrays
    \cup {Entry(S(<<"k">>), a) : a \in InnerArrays}
    \cup {Variant("inline", a) : a \in InnerArrays}

\* what follows the nested array in the enclosing one
Followers == {S(<<"b">>), Entry(S(<<"j">>), S(<<"w">>)), Arr(<<S(<<"c">>)>>)}

NestShapes ==
    {Arr(<<k>>) : k \in NestedKids} \cup {Arr(<<k, f>>) : k \in NestedKids, f \in Followers}

InitNest ==
    /\ ParkedScripts
    /\ ParkedCall
    /\ coerce = Parked /\ probe = Parked /\ opening = Parked
    /\ tracks = Parked /\ item = Parked /\ importing = Parked
    /\ shape \in NestShapes
    /\ hdr \in BOOLEAN
    /\ reply = ReplyText(shape, hdr)
    /\ result = PyNone
    /\ ppc = "ready"

SpecNest == InitNest /\ [][NextParse]_vars

\* the nested array of a shape, and the payload index of its open line
NestedArray == IF shape.kids[1].n = "array" THEN shape.kids[1] ELSE shape.kids[1].kids[Len(shape.kids[1].kids)]

NestedOpen == IF shape.kids[1].n = "entry" THEN 3 ELSE 1

\* the index of the line just after the nested array's own ']'
NestedEnd == NestedOpen + Len(Render(NestedArray, 1))

\* C24: array parsing stops at the close token that matches its own open
\* token, for every nesting, unrecognized or blank lines included:
\* _parse_array returns the index of the line just after its matching ']',
\* so what follows a nested array belongs to the enclosing array.
C24_StopsAtOwnClose ==
    ppc = "done" =>
        /\ parse_array(ReplyPayload, NestedOpen + 1)[2] = NestedEnd
        /\ parse_array(ReplyPayload, 1)[2] = Len(ReplyPayload)

-----------------------------------------------------------------------------
(* The transport, chosen at construction *)

\* the client holds a proxy exactly when pydbus was selected; every other
\* selection is subprocess mode without a proxy
TransportAsSelected ==
    /\ proxy <=> get_dbus_backend(installed) = "pydbus"
    /\ proxy <=> backend = "pydbus"
    /\ ~proxy <=> backend = "subprocess"

\* C25: the transport is chosen once at construction: the client holds a
\* proxy if and only if the native synchronous binding was selected, every
\* other selection (async-only, pure-library, none) is subprocess mode with
\* no proxy, and no call, failure or rediscovery changes the mode.
C25_TransportChosenOnce ==
    /\ []TransportAsSelected
    /\ [][proxy' = proxy /\ backend' = backend]_vars

\* a subprocess-mode client, the async binding installed, after a failed
\* call, a rediscovery and a retry
C25_Witness ==
    /\ ~proxy
    /\ backend = "subprocess"
    /\ installed = {"dbus_next", "jeepney"}
    /\ call[1].attempts = 2
    /\ call[1].discoveries = 1

-----------------------------------------------------------------------------
(* Track pre-validation while the editor's tracks change *)

PrevalidatedOps ==
    {<<"insert_clip", "scriptInsertClip">>,
     <<"insert_clips_sequentially", "scriptInsertClipsSequentially">>,
     <<"move_clip", "scriptMoveClip">>,
     <<"get_clips_on_track", "scriptGetClipsOnTrack">>}

InitTrackRace ==
    /\ ParkedParse /\ ParkedCall /\ ParkedScripts
    /\ coerce = Parked /\ probe = Parked /\ opening = Parked
    /\ item = Parked /\ importing = Parked
    /\ \E remote \in SUBSET TrackIds, via \in ListingTransports, track_id \in RequestedIds :
          tracks = [pc |-> "ready", remote |-> remote, via |-> via, track_id |-> track_id,
                    op |-> "", valid |-> {}, sent |-> <<>>, ret |-> ""]

TrackRaceRest == UNCHANGED <<pvars, cvars, coerce, probe, opening, item, importing, svars>>

\* valid = self._get_valid_track_ids(): the first step of an operation
FetchSnapshot ==
    /\ tracks.pc = "ready"
    /\ \E o \in PrevalidatedOps :
          tracks' = [tracks EXCEPT !.pc = "checked", !.op = o[1], !.valid = Snapshot]
    /\ TrackRaceRest

\* the user deletes a track in the editor while the script runs
EditorDeletesTrack ==
    /\ tracks.pc \in {"ready", "checked"}
    /\ \E t \in tracks.remote : tracks' = [tracks EXCEPT !.remote = tracks.remote \ {t}]
    /\ TrackRaceRest

\* the check against the snapshot, then the operation's own remote call
CheckAndForward ==
    /\ tracks.pc = "checked"
    /\ tracks' = IF rejects(tracks.valid, tracks.track_id)
                 THEN [tracks EXCEPT !.pc = "done", !.ret = Sentinel(tracks.op)]
                 ELSE [tracks EXCEPT
                         !.pc = "done", !.ret = "forwarded",
                         !.sent = <<<<(CHOOSE o \in PrevalidatedOps : o[1] = tracks.op)[2],
                                      tracks.track_id>>>>]
    /\ TrackRaceRest

NextTrackRace == FetchSnapshot \/ EditorDeletesTrack \/ CheckAndForward

SpecTrackRace == InitTrackRace /\ [][NextTrackRace]_vars

\* C26: when the remote track set can change between the steps of one
\* operation, the track id the operation forwards is still a member of the
\* remote's track set when the forwarded call is delivered (here: for the
\* operations whose snapshot was not empty).
C26_ForwardedTrackExists ==
    (tracks.pc = "done" /\ tracks.valid # {}) =>
        \A i \in 1..Len(tracks.sent) : tracks.sent[i][2] \in tracks.remote


-----------------------------------------------------------------------------
(* Two callers on one subprocess-mode client: the steps of _call interleave
   on the cached service address *)

\* a client constructed without a native binding
InitRace ==
    /\ InitCall
    /\ installed = {}

\* what the three tools do in the runs of the two callers: dbus-send answers,
\* dbus-send fails and qdbus answers, dbus-send times out, no tool is installed
RaceStatuses ==
    {<<"ok", "ok", "ok">>, <<"nonzero", "ok", "ok">>,
     <<"timeout", "ok", "ok">>, <<"absent", "absent", "absent">>}

\* one step of one caller's _call on the subprocess path
NextRace ==
    \E c \in Callers :
        \/ FirstAttempt(c) /\ call'[c].st \in RaceStatuses
        \/ ReadOld(c)
        \/ Rediscover(c)
        \/ Compare(c)
        \/ Retry(c) /\ call'[c].st \in RaceStatuses
        \/ Return(c)

SpecRace == InitRace /\ [][NextRace]_vars

\* the cached address is a name a discovery returns (the fallback included)
AddressDiscovered == service \in {d \in Discoveries : ~IsRaise(d)}

\* no logical call runs _call_subprocess more than twice
AtMostTwoAttempts == \A c \in Callers : call[c].attempts <= 2

\* the call of caller c failed at an address other than the one its
\* rediscovery found
FailedElsewhere(c) ==
    /\ call[c].pc = "done"
    /\ IsRaise(call[c].err)
    /\ call[c].found # PyNone
    /\ call[c].used[1] # call[c].found

\* C27: with two callers interleaving on a subprocess-mode client, the cached
\* address stays a discovered name or the fallback, no call is attempted more
\* than twice, and a call whose failing attempt used an address other than the
\* rediscovered one has been retried once
C27_BenignRace ==
    /\ AddressDiscovered
    /\ AtMostTwoAttempts
    /\ \A c \in Callers : FailedElsewhere(c) => call[c].attempts = 2

-----------------------------------------------------------------------------
(* Tracks addressed by type and index: Timeline.GetItemListInTrack, as the
   scripts' --track option uses it, and Timeline.InsertClipAt *)

TRACK_VIDEO == "video"

TRACK_AUDIO == "audio"

TRACK_SUBTITLE == "subtitle"

TrackTypes == {TRACK_VIDEO, TRACK_AUDIO, TRACK_SUBTITLE}

\* the most tracks of a project, the largest index asked for, the most clips
\* inserted in a run
MaxLayout == 3

MaxIndex == 3

MaxInserts == 2

\* track_id where no track is addressed
NoTrackId == -1

\* the projects: track i of the listing has id i - 1 and is an audio or a
\* video track
Layouts ==
    UNION {[1..n -> BOOLEAN] : n \in 0..MaxLayout}

\* get_all_tracks_info over the native transport: one dict for each track
tracks_info(layout) ==
    [i \in 1..Len(layout) |-> [id |-> i - 1, audio |-> layout[i]]]

\* [t for t in tracks if t.get("audio", False) == (track_type == TRACK_AUDIO)]
target_tracks(layout, track_type) ==
    SelectSeq(tracks_info(layout), LAMBDA t : t.audio = (track_type = TRACK_AUDIO))

\* idx = track_idx; if idx >= 1: idx = idx - 1
list_index(track_idx) ==
    IF track_idx >= 1 THEN track_idx - 1 ELSE track_idx

\* the id of the track whose clips GetItemListInTrack returns, NoTrackId
\* where it returns [] without asking for clips
listed_track(layout, track_type, track_idx) ==
    LET target == target_tracks(layout, track_type)
        idx == list_index(track_idx)
    IN  IF track_type = TRACK_SUBTITLE THEN NoTrackId
        ELSE IF target = <<>> THEN NoTrackId
        ELSE IF idx < 0 \/ idx >= Len(target) THEN NoTrackId
        ELSE target[idx + 1].id

\* the id of the track on which InsertClipAt inserts, NoTrackId where it
\* returns None
insert_track(layout, track_type, track_idx) ==
    LET target == target_tracks(layout, track_type)
    IN  IF track_idx >= Len(target) THEN NoTrackId
        ELSE target[track_idx + 1].id

\* get_clips_on_track: the clips of the track, in timeline order
clips_on_track(clips, track_id) ==
    SelectSeq(clips, LAMBDA c : c.track = track_id)

InitIndexing ==
    /\ ParkedFacade
    /\ marked = Parked /\ encoding = Parked
    /\ replacing = Parked /\ building = Parked
    /\ \E layout \in Layouts :
          indexing = [pc |-> "ready", layout |-> layout, clips |-> <<>>,
                      op |-> "none", track_type |-> "none", track_idx |-> 0,
                      track |-> NoTrackId, items |-> <<>>, mixes |-> <<>>]

IndexingRest ==
    UNCHANGED <<pvars, cvars, ovars, marked, encoding, replacing, building>>

\* Timeline.InsertClipAt: the clip is appended to the track addressed
InsertClipAt ==
    /\ indexing.pc = "ready"
    /\ Len(indexing.clips) < MaxInserts
    /\ \E track_type \in {TRACK_VIDEO, TRACK_AUDIO}, track_idx \in 0..MaxIndex :
          LET track_id == insert_track(indexing.layout, track_type, track_idx)
              clip == [id |-> Len(indexing.clips) + 1, track |-> track_id]
          IN  indexing' = [indexing EXCEPT
                  !.op = "InsertClipAt",
                  !.track_type = track_type,
                  !.track_idx = track_idx,
                  !.track = track_id,
                  !.items = <<>>,
                  !.mixes = <<>>,
                  !.clips = IF track_id = NoTrackId THEN @ ELSE Append(@, clip)]
    /\ IndexingRest

\* add_transitions(duration, track_idx) of scripts/add_transitions.py: the
\* clips of the video track are listed and each adjacent pair is mixed
AddTransitions ==
    /\ indexing.pc = "ready"
    /\ \E track_idx \in 0..MaxIndex :
          LET track_id == listed_track(indexing.layout, TRACK_VIDEO, track_idx)
              items == IF track_id = NoTrackId THEN <<>>
                       ELSE clips_on_track(indexing.clips, track_id)
          IN  indexing' = [indexing EXCEPT
                  !.op = "add_transitions",
                  !.track_type = TRACK_VIDEO,
                  !.track_idx = track_idx,
                  !.track = track_id,
                  !.items = items,
                  !.mixes = IF Len(items) < 2 THEN <<>>
                            ELSE [i \in 1..(Len(items) - 1) |->
                                     <<items[i].id, items[i + 1].id>>]]
    /\ IndexingRest

\* Timeline.GetItemListInTrack called directly, for any track type
GetItemListInTrack ==
    /\ indexing.pc = "ready"
    /\ \E track_type \in TrackTypes, track_idx \in 0..MaxIndex :
          LET track_id == listed_track(indexing.layout, track_type, track_idx)
          IN  indexing' = [indexing EXCEPT
                  !.op = "GetItemListInTrack",
                  !.track_type = track_type,
                  !.track_idx = track_idx,
                  !.track = track_id,
                  !.items = IF track_id = NoTrackId THEN <<>>
                            ELSE clips_on_track(indexing.clips, track_id),
                  !.mixes = <<>>]
    /\ IndexingRest

NextIndexing == InsertClipAt \/ AddTransitions \/ GetItemListInTrack

SpecIndexing == InitIndexing /\ [][NextIndexing]_vars

\* the ids of the video tracks of the project, in listing order
VideoTrackIds(layout) ==
    LET video == SelectSeq(tracks_info(layout), LAMBDA t : ~t.audio)
    IN  [i \in 1..Len(video) |-> video[i].id]

\* the (n + 1)-th video track, NoTrackId beyond the last
NthVideoTrack(layout, n) ==
    IF n + 1 <= Len(VideoTrackIds(layout)) THEN VideoTrackIds(layout)[n + 1]
    ELSE NoTrackId

\* C28: --track N operates on the clips of the (N + 1)-th video track, on no
\* clips beyond the last video track, and on the track that InsertClipAt
\* addresses for the same type and index
C28_TrackOptionZeroBased ==
    indexing.op = "add_transitions" =>
        /\ indexing.track = NthVideoTrack(indexing.layout, indexing.track_idx)
        /\ indexing.items =
              clips_on_track(indexing.clips,
                             NthVideoTrack(indexing.layout, indexing.track_idx))
        /\ indexing.track =
              insert_track(indexing.layout, TRACK_VIDEO, indexing.track_idx)

\* the same for the indices the lookup leaves as they are
C28_HoldsForIndexZero ==
    (indexing.op = "add_transitions" /\ indexing.track_idx = 0) =>
        /\ indexing.track = NthVideoTrack(indexing.layout, 0)
        /\ indexing.track = insert_track(indexing.layout, TRACK_VIDEO, 0)

-----------------------------------------------------------------------------
(* scripts/replace_scene.py: replace_scene, one remote call at a time *)

\* the most clips on the track and the clip lengths, in frames
MaxSceneClips == 3

SceneDurations == {2, 3}

\* the scene numbers asked for: 0 and MaxSceneClips + 1 are out of range
SceneNumbers == 0..(MaxSceneClips + 1)

\* the timeline clip ids of the clips on the track before the run, and the id
\* the editor gives to the clip inserted
NewSceneClip == MaxSceneClips + 1

\* the tracks before the run: clip i has id i, the clips follow one another
RECURSIVE scene_start(_, _)
scene_start(durations, i) ==
    IF i = 1 THEN 0 ELSE scene_start(durations, i - 1) + durations[i - 1]

SceneTracks ==
    {[i \in 1..Len(ds) |-> [id |-> i, start |-> scene_start(ds, i), duration |-> ds[i]]] :
        ds \in UNION {[1..n -> SceneDurations] : n \in 0..MaxSceneClips}}

\* no clip chosen
NoTarget == [id |-> 0, start |-> 0, duration |-> 0]

\* the status of a run that has not exited
Running == -1

IdsOf(clips) == {clips[i].id : i \in 1..Len(clips)}

InitReplacing ==
    /\ ParkedFacade
    /\ marked = Parked /\ encoding = Parked
    /\ indexing = Parked /\ building = Parked
    /\ \E clips \in SceneTracks, scene_number \in SceneNumbers :
          replacing = [pc |-> "list", clips |-> clips, scene_number |-> scene_number,
                       target |-> NoTarget, deleted |-> FALSE, inserted |-> FALSE,
                       status |-> Running]

ReplacingRest ==
    UNCHANGED <<pvars, cvars, ovars, marked, encoding, indexing, building>>

\* items = timeline.GetItemListInTrack(...); the range check; target and its
\* start, duration and track, read from the listing
FindScene ==
    /\ replacing.pc = "list"
    /\ LET items == replacing.clips
           n == replacing.scene_number
       IN  IF n < 1 \/ n > Len(items)
           THEN replacing' = [replacing EXCEPT !.pc = "exit", !.status = 1]
           ELSE replacing' = [replacing EXCEPT !.pc = "import", !.target = items[n]]
    /\ ReplacingRest

\* new_clips = pool.ImportMedia([...]); if not new_clips: sys.exit(1)
ImportNewFile ==
    /\ replacing.pc = "import"
    /\ \E imported \in BOOLEAN :
          replacing' = [replacing EXCEPT
              !.pc = IF imported THEN "delete" ELSE "exit",
              !.status = IF imported THEN Running ELSE 1]
    /\ ReplacingRest

\* target.Delete(): the result is not looked at
DeleteOld ==
    /\ replacing.pc = "delete"
    /\ \E removed \in BOOLEAN :
          replacing' = [replacing EXCEPT
              !.pc = "insert",
              !.deleted = removed,
              !.clips = IF removed
                        THEN SelectSeq(@, LAMBDA c : c.id # replacing.target.id)
                        ELSE @]
    /\ ReplacingRest

\* new_item = timeline.InsertClip(bin_id, old_track, old_position): None when
\* the editor refuses the insertion
InsertNew ==
    /\ replacing.pc = "insert"
    /\ \E accepted \in BOOLEAN, new_dur \in SceneDurations :
          IF accepted
          THEN replacing' = [replacing EXCEPT
                   !.pc = "resize",
                   !.inserted = TRUE,
                   !.clips = Append(@, [id |-> NewSceneClip,
                                        start |-> replacing.target.start,
                                        duration |-> new_dur])]
          ELSE replacing' = [replacing EXCEPT !.pc = "exit", !.status = 1]
    /\ ReplacingRest

\* if new_dur != old_duration: new_item.SetDuration(old_duration); "Done!"
MatchDuration ==
    /\ replacing.pc = "resize"
    /\ replacing' = [replacing EXCEPT
          !.pc = "exit",
          !.status = 0,
          !.clips = [i \in 1..Len(@) |->
                        IF @[i].id = NewSceneClip
                        THEN [@[i] EXCEPT !.duration = replacing.target.duration]
                        ELSE @[i]]]
    /\ ReplacingRest

NextReplacing ==
    FindScene \/ ImportNewFile \/ DeleteOld \/ InsertNew \/ MatchDuration

SpecReplacing == InitReplacing /\ [][NextReplacing]_vars

\* the run has exited with status 1 after it chose the clip to replace
FailedAfterChoice ==
    /\ replacing.pc = "exit"
    /\ replacing.status = 1
    /\ replacing.target # NoTarget

\* C29: when replace_scene exits with status 1 the clip of the scene's slot
\* is still on the timeline, and a run that deleted it has inserted the new
\* clip
C29_OldClipKeptOnFailure ==
    /\ FailedAfterChoice => replacing.target.id \in IdsOf(replacing.clips)
    /\ (replacing.pc = "exit" /\ replacing.deleted) => replacing.inserted

\* the same for the two exits that come before the deletion
C29_KeptBeforeDeletion ==
    (FailedAfterChoice /\ ~replacing.deleted) =>
        replacing.target.id \in IdsOf(replacing.clips)

-----------------------------------------------------------------------------
(* scripts/build_timeline.py: the insert loop and the guide-marker loop of
   build_timeline, one iteration at a time *)

SCENE_DURATION_FRAMES == 125

\* the most scenes of a run and the clip lengths the editor reports
MaxBuildScenes == 3

BuildDurations == {25, 50}

\* the clip of scene idx as the editor holds it
BuildClip(position, duration) ==
    [there |-> TRUE, trackId |-> 0, position |-> position, duration |-> duration]

\* TimelineItem.GetDuration: int(self._info.get("duration", 0)) after
\* _load_info
GetDurationOf(info, remote) == DurationOf(load_info(info, remote).data)

InitBuilding ==
    /\ ParkedFacade
    /\ marked = Parked /\ encoding = Parked
    /\ indexing = Parked /\ replacing = Parked
    /\ \E num_scenes \in 1..MaxBuildScenes :
       \E scene_clips \in SUBSET (0..(num_scenes - 1)) :
          building = [pc |-> "insert", num_scenes |-> num_scenes,
                      scene_clips |-> scene_clips,
                      idx |-> 0, position |-> 0, slots |-> <<>>,
                      timeline_items |-> <<>>,
                      remote |-> [i \in 0..(num_scenes - 1) |-> NoClip],
                      pos |-> 0, markers |-> <<>>]

BuildingRest ==
    UNCHANGED <<pvars, cvars, ovars, marked, encoding, indexing, replacing>>

\* one iteration of `for idx in range(num_scenes)` of the insert loop
InsertScene ==
    /\ building.pc = "insert"
    /\ building.idx < building.num_scenes
    /\ LET idx == building.idx
           position == building.position
       IN  \E inserted \in BOOLEAN, duration \in BuildDurations :
              IF idx \in building.scene_clips /\ inserted
              THEN LET clip == BuildClip(position, duration)
                       info == load_info(NoInfo, clip)
                   IN  building' = [building EXCEPT
                           !.idx = idx + 1,
                           !.slots = Append(@, position),
                           !.remote = [@ EXCEPT ![idx] = clip],
                           !.timeline_items = Append(@, [idx |-> idx, info |-> info]),
                           !.position = position + GetDurationOf(info, clip)]
              ELSE building' = [building EXCEPT
                       !.idx = idx + 1,
                       !.slots = Append(@, position),
                       !.position = position + SCENE_DURATION_FRAMES]
    /\ BuildingRest

\* the audio clip and the mixes are added after the insert loop: the editor
\* may report other clip lengths afterwards
AddMixes ==
    /\ building.pc = "insert"
    /\ building.idx = building.num_scenes
    /\ \E after \in [0..(building.num_scenes - 1) -> BuildDurations] :
          building' = [building EXCEPT
              !.pc = "mark",
              !.idx = 0,
              !.remote = [i \in 0..(building.num_scenes - 1) |->
                             IF @[i].there THEN [@[i] EXCEPT !.duration = after[i]]
                             ELSE @[i]]]
    /\ BuildingRest

\* next((item for si, item in timeline_items if si == idx), None)
clip_info(timeline_items, idx) ==
    SelectSeq(timeline_items, LAMBDA e : e.idx = idx)

\* the advance of the marker loop's position after the marker of scene idx
marker_advance(scene_clips, timeline_items, remote, idx) ==
    IF idx \in scene_clips
    THEN IF clip_info(timeline_items, idx) # <<>>
         THEN GetDurationOf(clip_info(timeline_items, idx)[1].info, remote[idx])
         ELSE SCENE_DURATION_FRAMES
    ELSE SCENE_DURATION_FRAMES

\* one iteration of `for idx in range(num_scenes)` of the marker loop
AddGuideMarker ==
    /\ building.pc = "mark"
    /\ building.idx < building.num_scenes
    /\ building' = [building EXCEPT
          !.idx = @ + 1,
          !.markers = Append(@, building.pos),
          !.pos = @ + marker_advance(building.scene_clips, building.timeline_items,
                                      building.remote, building.idx)]
    /\ BuildingRest

\* the summary is printed and the script ends
FinishBuild ==
    /\ building.pc = "mark"
    /\ building.idx = building.num_scenes
    /\ building' = [building EXCEPT !.pc = "done"]
    /\ BuildingRest

NextBuilding == InsertScene \/ AddMixes \/ AddGuideMarker \/ FinishBuild

SpecBuilding == InitBuilding /\ [][NextBuilding]_vars

\* the insert loop's running position before scene i (1-based), its final
\* position after the last scene
InsertPositionAt(i) ==
    IF i <= Len(building.slots) THEN building.slots[i] ELSE building.position

\* C30: the guide marker of every scene is added at the frame at which the
\* insert loop placed the scene (or at which its slot starts), and the marker
\* loop's running position equals the insert loop's at every index
C30_MarkersFollowInserts ==
    building.pc \in {"mark", "done"} =>
        /\ \A i \in 1..Len(building.markers) :
              building.markers[i] = building.slots[i]
        /\ building.pos = InsertPositionAt(building.idx + 1)

\* a finished run with a scene missing, a scene inserted before another
\* scene, and a clip whose length in the editor is no longer the one cached
C30_Witness ==
    /\ building.pc = "done"
    /\ building.scene_clips # 0..(building.num_scenes - 1)
    /\ \E i \in 1..Len(building.timeline_items) :
          LET e == building.timeline_items[i]
          IN  /\ e.idx < building.num_scenes - 1
              /\ e.info.data.duration # building.remote[e.idx].duration
    /\ Len(building.markers) = building.num_scenes
=============================================================================
